---- MODULE Spec2Model ----
(***************************************************************************)
(* A model of the paste classification pipeline of Filmlane                *)
(* (src/src/lib/paste-classifier.ts), of the context memory manager it     *)
(* consults and of the editor's bookkeeping of pending confirmations.      *)
(*                                                                         *)
(* A line of pasted text is a sequence of tokens.  A token stands for one  *)
(* whitespace separated Arabic word, for one punctuation mark, or for a    *)
(* run of prose of a known length; the regular expressions of the source   *)
(* are evaluated on the tokens.  The tokens and the text each stands for:  *)
(*                                                                         *)
(*   bism      U+0628 U+0633 U+0645               (in the name of)         *)
(*   allah     U+0627 U+0644 U+0644 U+0647        (God)                    *)
(*   alrahman  the Merciful, 6 letters                                     *)
(*   alrahim   the Compassionate, 6 letters                                *)
(*   mashhad   "scene", 4 letters                                          *)
(*   mashhadD  "scene" written with a fatha (U+064E) on its first letter   *)
(*   n1        the Latin digit 1                                           *)
(*   dakhili   "interior", 5 letters                                       *)
(*   layl      "night", 3 letters                                          *)
(*   qat3      "cut", 3 letters                                            *)
(*   yadkhul   "he enters", 4 letters, a verb of ACTION_VERB_LIST          *)
(*   nara      "we see", 3 letters, a verb of EXTRA_ACTION_VERBS           *)
(*   ali       a name, 3 letters                                           *)
(*   fi        "in", 2 letters, a stop word of isCharacterLine             *)
(*   bayt      "house", 3 letters, a noun of KNOWN_PLACES                  *)
(*   med       4 words of Arabic prose, 23 characters                      *)
(*   long      21 words of Arabic prose, 104 characters                    *)
(*   colon ":"   dot "."   dash "-"   bullet U+2022   lparen "("  rparen ")"*)
(*                                                                         *)
(* In the text a line stands for, colon, dot and rparen follow the token   *)
(* before them without a space, lparen precedes the token after it without *)
(* a space, and every other token is separated by one space.               *)
(***************************************************************************)
EXTENDS Integers, Sequences, FiniteSets, TLC

\* ------------------------------------------------------------------ tokens

WordToks == {"bism", "allah", "alrahman", "alrahim", "mashhad", "mashhadD",
             "dakhili", "layl", "qat3", "yadkhul", "nara", "ali", "fi", "bayt"}
ProseToks == {"med", "long"}
DigitToks == {"n1"}
GlueLeft == {"colon", "dot", "rparen"}
GlueRight == {"lparen"}
BulletToks == {"dash", "bullet"}
Tokens == WordToks \cup ProseToks \cup DigitToks \cup GlueLeft \cup GlueRight \cup BulletToks

\* Number of characters (UTF-16 units) of a token's text.
TokLen(t) ==
  CASE t \in {"fi"} -> 2
    [] t \in {"bism", "layl", "qat3", "ali", "bayt", "nara"} -> 3
    [] t \in {"allah", "mashhad", "yadkhul"} -> 4
    [] t \in {"dakhili", "mashhadD"} -> 5
    [] t \in {"alrahman", "alrahim"} -> 6
    [] t = "med" -> 23
    [] t = "long" -> 104
    [] OTHER -> 1

\* Number of whitespace separated words a token contributes to a line.
TokWords(t) ==
  CASE t = "med" -> 4
    [] t = "long" -> 21
    [] t \in GlueLeft \cup GlueRight -> 0
    [] OTHER -> 1

RECURSIVE SumOver(_, _, _)
SumOver(F(_), s, k) == IF k = 0 THEN 0 ELSE F(s[k]) + SumOver(F, s, k - 1)

\* Token i of line l is preceded by a space in the text.
StartsChunk(l, i) == i > 1 /\ l[i] \notin GlueLeft /\ l[i - 1] \notin GlueRight

\* line.length of the text of a (trimmed) line.
TextLength(l) ==
  SumOver(TokLen, l, Len(l)) + Cardinality({i \in 1..Len(l) : StartsChunk(l, i)})

\* text.split(/\s+/).filter(Boolean).length
SplitWordCount(l) == SumOver(TokWords, l, Len(l))

Last(s) == s[Len(s)]
Front(s) == SubSeq(s, 1, Len(s) - 1)

\* s.includes(sub) on token sequences: sub is a contiguous part of s.
Includes(s, sub) ==
  \E k \in 0..(Len(s) - Len(sub)) : SubSeq(s, k + 1, k + Len(sub)) = sub

\* ------------------------------------------------------------ normalisation

\* The token without its diacritics (the first replace of normalizeLine).
StripTashkeel(t) == IF t = "mashhadD" THEN "mashhad" ELSE t

\* stripLeadingBullets: a leading run of bullet glyphs and the space after it.
stripLeadingBullets(l) == IF Len(l) > 0 /\ l[1] \in BulletToks THEN Tail(l) ELSE l

\* normalizeLine: diacritics removed everywhere, then the leading bullet run, trimmed.
normalizeLine(l) ==
  LET d == [i \in 1..Len(l) |-> StripTashkeel(l[i])]
  IN  IF Len(d) > 0 /\ d[1] \in BulletToks THEN Tail(d) ELSE d

hasSentencePunctuation(l) == \E i \in 1..Len(l) : l[i] = "dot"

lineHasColon(l) == \E i \in 1..Len(l) : l[i] = "colon"

\* ----------------------------------------------------------------- matchers

isBasmala(l) ==
  LET cleaned == SelectSeq(l, LAMBDA t : t \notin {"lparen", "rparen"})
      compact == SelectSeq(normalizeLine(cleaned), LAMBDA t : t \in WordToks \cup ProseToks)
  IN  /\ \E i \in 1..Len(compact) : compact[i] = "bism"
      /\ \E i \in 1..Len(compact) : compact[i] = "allah"
      /\ \E i \in 1..Len(compact) : compact[i] \in {"alrahman", "alrahim"}

\* SCENE_NUMBER_RE, unanchored, on a normalised line.
SCENE_NUMBER_RE(n) ==
  \E i \in 1..(Len(n) - 1) : n[i] = "mashhad" /\ n[i + 1] \in DigitToks

\* SCENE_NUMBER_EXACT_RE, anchored at the start of the line it is given.
SCENE_NUMBER_EXACT_RE(n) == Len(n) >= 2 /\ n[1] = "mashhad" /\ n[2] \in DigitToks

isSceneHeader1(l) == SCENE_NUMBER_RE(normalizeLine(l))

isSceneHeader2(l) ==
  LET n == normalizeLine(l)
  IN  /\ \E i \in 1..Len(n) : n[i] = "layl"
      /\ \E i \in 1..Len(n) : n[i] = "dakhili"

isCompleteSceneHeader(l) ==
  LET n == normalizeLine(l) IN SCENE_NUMBER_EXACT_RE(n) /\ isSceneHeader2(n)

\* splitSceneHeader matches the line as given (not normalised): ok is FALSE for null.
splitSceneHeader(l) ==
  IF SCENE_NUMBER_EXACT_RE(l)
  THEN LET rest == SubSeq(l, 3, Len(l))
       IN  [ok |-> TRUE,
            number |-> SubSeq(l, 1, 2),
            description |-> IF Len(rest) > 0 /\ rest[1] \in {"dash", "colon"}
                            THEN Tail(rest) ELSE rest]
  ELSE [ok |-> FALSE, number |-> <<>>, description |-> <<>>]

isTransition(l) == LET n == normalizeLine(l) IN Len(n) > 0 /\ n[1] = "qat3"

ACTION_VERB_SET == {"yadkhul", "nara"}

\* The tokens of the first whitespace separated chunk of a line.
FirstChunk(l) ==
  IF Len(l) = 0 THEN <<>>
  ELSE LET ends == {k \in 1..Len(l) : k = Len(l) \/ StartsChunk(l, k + 1)}
           k == CHOOSE x \in ends : \A y \in ends : x <= y
       IN  SubSeq(l, 1, k)

\* No token of the vocabulary is a verb behind one of the particles wa, fa, la.
isActionVerbStart(l) ==
  LET normalized == SelectSeq(FirstChunk(l), LAMBDA t : t \in WordToks \cup ProseToks)
  IN  Len(normalized) = 1 /\ normalized[1] \in ACTION_VERB_SET

\* Words that start with ya or ta and have two or more letters after it.
YaTaWords == {"yadkhul"}
NarratorCues == {"nara"}

\* The patterns end in (?:\s+\S|$): the word is the whole line or a space follows it.
matchesActionStartPattern(l) ==
  LET n == normalizeLine(l)
  IN  /\ Len(n) > 0
      /\ n[1] \in YaTaWords \cup NarratorCues
      /\ (Len(n) = 1 \/ StartsChunk(n, 2))

isLikelyAction(l) ==
  IF Len(l) = 0 THEN FALSE
  ELSE LET n == normalizeLine(l)
       IN  matchesActionStartPattern(n) \/ isActionVerbStart(n)

\* CHARACTER_RE: an Arabic letter, up to 30 more Arabic letters, digits or spaces,
\* an optional colon at the end.
CHARACTER_RE(l) ==
  LET body == IF Len(l) > 0 /\ Last(l) = "colon" THEN Front(l) ELSE l
  IN  /\ Len(body) > 0
      /\ \A i \in 1..Len(body) : body[i] \in WordToks \cup ProseToks \cup DigitToks
      /\ body[1] \notin DigitToks
      /\ TextLength(body) <= 31

isParenthetical(l) == Len(l) >= 2 /\ l[1] = "lparen" /\ Last(l) = "rparen"

\* parseInlineCharacterDialogue: ok is FALSE for null.
NoInline == [ok |-> FALSE, characterName |-> <<>>, dialogueText |-> <<>>]

\* A faulty parser: a line that is a complete scene header is never split into a
\* name and a speech.
parseInlineCharacterDialogueNotSceneHeader(l) ==
  IF ~lineHasColon(l) \/ isCompleteSceneHeader(l) THEN NoInline
  ELSE LET k == CHOOSE x \in 1..Len(l) :
                  l[x] = "colon" /\ \A y \in 1..(x - 1) : l[y] # "colon"
           characterName == SubSeq(l, 1, k - 1)
           dialogueText == SubSeq(l, k + 1, Len(l))
       IN  IF \/ Len(characterName) = 0
              \/ Len(dialogueText) = 0
              \/ ~CHARACTER_RE(Append(characterName, "colon"))
           THEN NoInline
           ELSE [ok |-> TRUE, characterName |-> characterName,
                 dialogueText |-> dialogueText]

parseInlineCharacterDialogue(l) ==
  IF ~lineHasColon(l) THEN NoInline
  ELSE LET k == CHOOSE x \in 1..Len(l) :
                  l[x] = "colon" /\ \A y \in 1..(x - 1) : l[y] # "colon"
           characterName == SubSeq(l, 1, k - 1)
           dialogueText == SubSeq(l, k + 1, Len(l))
       IN  IF \/ Len(characterName) = 0
              \/ TextLength(characterName) > 60
              \/ Len(dialogueText) = 0
              \/ ~CHARACTER_RE(Append(characterName, "colon"))
           THEN NoInline
           ELSE [ok |-> TRUE, characterName |-> characterName,
                 dialogueText |-> dialogueText]

stopWords == {"fi"}

isCharacterLine(l, context) ==
  IF Len(l) = 0 THEN FALSE
  ELSE IF isCompleteSceneHeader(l) \/ isTransition(l) \/ isParenthetical(l) THEN FALSE
  ELSE LET normalized == normalizeLine(l)
           hasColon == lineHasColon(l)
           arabicOnlyWithNumbers ==
             /\ Len(normalized) > 0
             /\ \A i \in 1..Len(normalized) :
                  normalized[i] \in WordToks \cup ProseToks \cup DigitToks
       IN  IF SplitWordCount(normalized) > 5 THEN FALSE
           ELSE IF isActionVerbStart(normalized) THEN FALSE
           ELSE IF matchesActionStartPattern(normalized) THEN FALSE
           ELSE IF hasColon /\ Last(l) = "colon" THEN TRUE
           ELSE IF ~hasColon /\ arabicOnlyWithNumbers
                THEN IF SplitWordCount(normalized) = 0 \/ SplitWordCount(normalized) > 3
                     THEN FALSE
                     ELSE ~(\E i \in 1..Len(normalized) : normalized[i] \in stopWords)
           ELSE IF ~hasColon THEN FALSE
           ELSE IF context.isInDialogueBlock /\ context.lastFormat = "character"
                THEN CHARACTER_RE(l)
           ELSE IF context.isInDialogueBlock /\ context.lastFormat = "dialogue"
                THEN FALSE
           ELSE CHARACTER_RE(l)

\* ------------------------------------------------------------------ labels

Labels == {"basmala", "scene-header-top-line", "scene-header-1", "scene-header-2",
           "scene-header-3", "action", "character", "dialogue", "parenthetical",
           "transition"}

\* previousTypes[previousTypes.length - 1]; "undefined" for an empty history.
LastOf(types) == IF Len(types) = 0 THEN "undefined" ELSE types[Len(types)]

\* s.slice(-n)
SliceLast(s, n) == IF Len(s) <= n THEN s ELSE SubSeq(s, Len(s) - n + 1, Len(s))

\* s.slice(0, n)
SliceFirst(s, n) == IF Len(s) <= n THEN s ELSE SubSeq(s, 1, n)

\* ----------------------------------------------------------- context model

WINDOW_SIZE == 3

\* Distance from the end of the history to the last label satisfying P, or -1.
LastDistance(types, P(_)) ==
  LET hits == {k \in 1..Len(types) : P(types[k])}
  IN  IF hits = {} THEN -1
      ELSE Len(types) - (CHOOSE k \in hits : \A j \in hits : j <= k)

\* buildContext(lines, currentIndex, previousTypes); lines are numbered from 1.
buildContext(lns, currentIndex, previousTypes) ==
  LET currentLine == IF currentIndex \in 1..Len(lns) THEN lns[currentIndex] ELSE <<>>
      lo == IF currentIndex - WINDOW_SIZE < 1 THEN 1 ELSE currentIndex - WINDOW_SIZE
      hi == IF Len(lns) < currentIndex + WINDOW_SIZE THEN Len(lns)
            ELSE currentIndex + WINDOW_SIZE
      charCount == TextLength(currentLine)
      recentTypes == SliceLast(previousTypes, 10)
      lastType == LastOf(previousTypes)
      last3 == SliceLast(recentTypes, 3)
  IN  [previousLines |-> SubSeq(lns, lo, currentIndex - 1),
       currentLine |-> currentLine,
       nextLines |-> SubSeq(lns, currentIndex + 1, hi),
       previousTypes |-> previousTypes,
       stats |-> [wordCount |-> SplitWordCount(normalizeLine(currentLine)),
                  charCount |-> charCount,
                  hasColon |-> lineHasColon(currentLine),
                  hasPunctuation |-> hasSentencePunctuation(currentLine),
                  startsWithBullet |-> Len(currentLine) > 0 /\ currentLine[1] = "bullet",
                  isShort |-> charCount < 30,
                  isLong |-> charCount > 100],
       pattern |-> [isInDialogueBlock |->
                      \E k \in 1..Len(last3) :
                        last3[k] \in {"character", "dialogue", "parenthetical"},
                    isInSceneHeader |->
                      lastType \in {"scene-header-top-line", "scene-header-1",
                                    "scene-header-2"},
                    lastSceneDistance |->
                      LastDistance(previousTypes,
                                   LAMBDA t : t \in {"scene-header-top-line", "scene-header-1",
                                                     "scene-header-2", "scene-header-3"}),
                    lastCharacterDistance |->
                      LastDistance(previousTypes, LAMBDA t : t = "character")]]

\* ------------------------------------------------------ core classification

KNOWN_PLACES == {"bayt"}

\* The nouns of the third test of isSceneHeader3 that the vocabulary holds.
PLACE_DASH_NOUNS == {"bayt"}

\* The third test of isSceneHeader3: a place noun, \s+, [\w\s]+, a dash, \s*, [\w\s]+.
\* \w matches no Arabic letter, so only digits fit before the dash; after it the
\* space before the next token is enough.
PlaceDashPattern(n) ==
  /\ Len(n) >= 4
  /\ n[1] \in PLACE_DASH_NOUNS
  /\ n[2] \in DigitToks
  /\ \E d \in 3..(Len(n) - 1) :
       /\ n[d] = "dash"
       /\ \A j \in 2..(d - 1) : n[j] \in DigitToks
       /\ (StartsChunk(n, d + 1) \/ n[d + 1] \in DigitToks)

isSceneHeader3(l, ctx) ==
  LET normalized == normalizeLine(l)
      normalizedWithoutColon ==
        IF Len(normalized) > 0 /\ Last(normalized) = "colon" THEN Front(normalized)
        ELSE normalized
      wordCount == SplitWordCount(normalizedWithoutColon)
      lastType == LastOf(ctx.previousTypes)
  IN  IF /\ lastType \in {"scene-header-top-line", "scene-header-1", "scene-header-2"}
         /\ wordCount <= 12
         /\ ~hasSentencePunctuation(l)
         /\ ~isActionVerbStart(normalizedWithoutColon)
         /\ ~matchesActionStartPattern(normalizedWithoutColon)
      THEN TRUE
      ELSE IF Len(normalizedWithoutColon) > 0 /\ normalizedWithoutColon[1] \in KNOWN_PLACES
      THEN TRUE
      ELSE PlaceDashPattern(normalizedWithoutColon)

isLikelyCharacter(l, ctx) ==
  IF ~ctx.stats.isShort \/ ctx.stats.wordCount > 5 THEN FALSE
  ELSE IF isTransition(l) THEN FALSE
  ELSE IF isActionVerbStart(normalizeLine(l)) THEN FALSE
  ELSE IF ctx.stats.hasPunctuation /\ ~ctx.stats.hasColon THEN FALSE
  ELSE IF /\ Len(ctx.nextLines) > 0
          /\ Len(ctx.nextLines[1]) > 0
          /\ (isCompleteSceneHeader(ctx.nextLines[1]) \/ isTransition(ctx.nextLines[1]))
       THEN FALSE
  ELSE ctx.pattern.lastCharacterDistance # 1

\* classifyWithContext, with the number of the check (section 4.4 of the
\* specification numbers them 1 to 13) whose return statement is taken.
classifyStep(l, ctx) ==
  LET lastType == LastOf(ctx.previousTypes)
      hasNext == Len(ctx.nextLines) > 0 /\ Len(ctx.nextLines[1]) > 0
  IN  IF isBasmala(l) THEN [label |-> "basmala", step |-> 1]
      ELSE IF isCompleteSceneHeader(l) THEN [label |-> "scene-header-top-line", step |-> 2]
      ELSE IF isSceneHeader1(l) THEN [label |-> "scene-header-1", step |-> 3]
      ELSE IF isSceneHeader2(l) THEN [label |-> "scene-header-2", step |-> 4]
      ELSE IF isTransition(l) THEN [label |-> "transition", step |-> 5]
      ELSE IF isParenthetical(l) /\ ctx.pattern.isInDialogueBlock
           THEN [label |-> "parenthetical", step |-> 6]
      ELSE IF isLikelyAction(l) THEN [label |-> "action", step |-> 7]
      ELSE IF ctx.pattern.isInSceneHeader /\ isSceneHeader3(l, ctx)
           THEN [label |-> "scene-header-3", step |-> 8]
      ELSE IF /\ ctx.pattern.isInDialogueBlock
              /\ lastType \in {"character", "parenthetical"}
              /\ ~isCharacterLine(l, [lastFormat |-> lastType, isInDialogueBlock |-> TRUE])
           THEN [label |-> "dialogue", step |-> 9]
      ELSE IF /\ ctx.pattern.isInDialogueBlock
              /\ lastType = "dialogue"
              /\ ~ctx.stats.hasColon
              /\ ~isCompleteSceneHeader(l)
           THEN [label |-> "dialogue", step |-> 9]
      ELSE IF /\ ctx.stats.isShort
              /\ ctx.stats.hasColon
              /\ isCharacterLine(l, [lastFormat |-> lastType,
                                     isInDialogueBlock |-> ctx.pattern.isInDialogueBlock])
           THEN [label |-> "character", step |-> 10]
      ELSE IF /\ ctx.stats.isShort
              /\ hasNext
              /\ TextLength(ctx.nextLines[1]) > 20
              /\ isLikelyCharacter(l, ctx)
           THEN [label |-> "character", step |-> 11]
      ELSE IF ctx.stats.isLong /\ ctx.stats.hasPunctuation
           THEN [label |-> "action", step |-> 12]
      ELSE IF /\ ctx.stats.startsWithBullet
              /\ ~parseInlineCharacterDialogue(
                    IF Len(l) > 0 /\ l[1] = "bullet" THEN Tail(l) ELSE l).ok
           THEN [label |-> "action", step |-> 13]
      ELSE [label |-> "action", step |-> 13]

\* A faulty classifier: the default at the end of the chain gives no label of the
\* set instead of action.
classifyWithContextNoDefault(l, ctx) ==
  LET r == classifyStep(l, ctx)
  IN  IF r.step = 13 THEN "unknown" ELSE r.label

\* A faulty classifier: the transition check is made before the scene-header-2
\* check.
classifyWithContextTransitionFirst(l, ctx) ==
  IF /\ isTransition(l)
     /\ ~isBasmala(l) /\ ~isCompleteSceneHeader(l) /\ ~isSceneHeader1(l)
  THEN "transition"
  ELSE classifyStep(l, ctx).label

\* A faulty classifier: a parenthesised line is labelled parenthetical whether
\* or not it is inside a dialogue block.
classifyWithContextParentheticalAnywhere(l, ctx) ==
  IF /\ isParenthetical(l)
     /\ ~isBasmala(l) /\ ~isCompleteSceneHeader(l) /\ ~isSceneHeader1(l)
     /\ ~isSceneHeader2(l) /\ ~isTransition(l)
  THEN "parenthetical"
  ELSE classifyStep(l, ctx).label

\* A faulty classifier: a line without colon continues the dialogue whenever
\* one of the last three labels belongs to a dialogue block, whatever the last
\* label is.
classifyWithContextContinuesBlock(l, ctx) ==
  LET r == classifyStep(l, ctx)
  IN  IF r.step >= 10 /\ ctx.pattern.isInDialogueBlock /\ ~ctx.stats.hasColon
      THEN "dialogue"
      ELSE r.label

classifyWithContext(l, ctx) == classifyStep(l, ctx).label

\* ------------------------------------------------------------ spacing rules

\* The gap pairs of the table, for the faulty variants of the rule engine below.
GapPairs ==
  {<<"scene-header-2", "scene-header-3">>, <<"scene-header-3", "action">>}
  \cup {<<p, c>> : p \in {"action", "dialogue", "parenthetical"},
                   c \in {"action", "character", "transition"}}
  \cup {<<"transition", c>> : c \in {"scene-header-1", "scene-header-top-line"}}

\* A faulty rule engine: the zero after a character cue covers dialogue only, so
\* a parenthetical after a character cue is left without an explicit margin.
getSpacingMarginTopDialogueOnly(previousFormat, currentFormat) ==
  IF previousFormat = "basmala" THEN "0"
  ELSE IF previousFormat \in {"character", "parenthetical"} /\ currentFormat = "dialogue"
       THEN "0"
  ELSE IF <<previousFormat, currentFormat>> \in GapPairs THEN "14pt"
  ELSE ""

\* A faulty rule engine: a transition is followed by a gap only before a
\* scene-header-1 block, not before the scene-header-top-line wrapper.
getSpacingMarginTopNoTopLineGap(previousFormat, currentFormat) ==
  IF previousFormat = "basmala" THEN "0"
  ELSE IF previousFormat = "character" /\ currentFormat \in {"dialogue", "parenthetical"}
       THEN "0"
  ELSE IF previousFormat = "parenthetical" /\ currentFormat = "dialogue" THEN "0"
  ELSE IF <<previousFormat, currentFormat>> \in
            GapPairs \ {<<"transition", "scene-header-top-line">>}
       THEN "14pt"
  ELSE ""

getSpacingMarginTop(previousFormat, currentFormat) ==
  IF previousFormat = "basmala" THEN "0"
  ELSE IF previousFormat = "character" /\ currentFormat \in {"dialogue", "parenthetical"}
       THEN "0"
  ELSE IF previousFormat = "parenthetical" /\ currentFormat = "dialogue" THEN "0"
  ELSE IF previousFormat = "scene-header-2" /\ currentFormat = "scene-header-3"
       THEN "14pt"
  ELSE IF previousFormat = "scene-header-3" /\ currentFormat = "action" THEN "14pt"
  ELSE IF previousFormat = "action" /\ currentFormat \in {"action", "character", "transition"}
       THEN "14pt"
  ELSE IF previousFormat = "dialogue" /\ currentFormat \in {"character", "action", "transition"}
       THEN "14pt"
  ELSE IF /\ previousFormat = "parenthetical"
          /\ currentFormat \in {"character", "action", "transition"}
       THEN "14pt"
  ELSE IF /\ previousFormat = "transition"
          /\ currentFormat \in {"scene-header-1", "scene-header-top-line"}
       THEN "14pt"
  ELSE ""

\* buildLineDivHTML: one div; margin-top is set only for a non-empty marginTop
\* (an omitted argument is written "").  parent names the wrapper div the block is
\* put into ("" for none) and parentMarginTop the wrapper's own margin-top.
buildLineDivHTML(className, text, marginTop) ==
  [label |-> className, text |-> text, marginTop |-> marginTop,
   parent |-> "", parentMarginTop |-> ""]

\* --------------------------------------------------- context memory manager

SessionIds == {"s1", "s2"}
\* What can be wrong with the record of a session: loadContext rejects ("load"),
\* the record has no data object ("data"), or one field of data is undefined.
Faults == {"load", "data", "commonCharacters", "lastClassifications",
           "characterDialogueMap"}

\* No record (loadContext gives null).  faults names what is wrong with a
\* record; a field named there is undefined, whatever the record shows for it.
NoMemory == [present |-> FALSE, commonCharacters |-> <<>>, lastClassifications |-> <<>>,
             characterDialogueMap |-> <<>>, faults |-> {}]

\* A faulty load: one record is kept for all the sessions.
loadContextShared(store, sessionId) == store["s1"]

\* loadContext: a deep copy of the stored record, or null (present = FALSE).
loadContext(store, sessionId) == store[sessionId]

RemoveColons(l) == SelectSeq(l, LAMBDA t : t # "colon")

MAX_LAST_CLASSIFICATIONS == 20

\* characterDialogueMap is kept as a sequence of <<name, count>> pairs in the order
\* the object's keys were created.
MapGet(m, name) ==
  IF \E k \in 1..Len(m) : m[k][1] = name
  THEN (m[CHOOSE k \in 1..Len(m) : m[k][1] = name])[2]
  ELSE 0

\* A faulty put: the count of a name already in the map is left as it is.
MapPutOnce(m, name, v) ==
  IF \E k \in 1..Len(m) : m[k][1] = name THEN m ELSE Append(m, <<name, v>>)

MapPut(m, name, v) ==
  IF \E k \in 1..Len(m) : m[k][1] = name
  THEN [k \in 1..Len(m) |-> IF m[k][1] = name THEN <<name, v>> ELSE m[k]]
  ELSE Append(m, <<name, v>>)

RECURSIVE RecordCharacters(_, _)
\* The forEach of updateMemory over the records, in order.
RecordCharacters(memory, classifications) ==
  IF Len(classifications) = 0 THEN memory
  ELSE LET record == Head(classifications)
           charName == RemoveColons(record.line)
           next ==
             IF record.classification = "character" /\ Len(charName) > 0
             THEN [memory EXCEPT
                     !.commonCharacters =
                        IF \E k \in 1..Len(@) : @[k] = charName THEN @
                        ELSE Append(@, charName),
                     !.characterDialogueMap =
                        MapPut(@, charName, MapGet(@, charName) + 1)]
             ELSE memory
       IN  RecordCharacters(next, Tail(classifications))

\* A faulty default: the fresh record already holds a label.
MemoryOrDefaultNotEmpty(loaded) ==
  IF loaded.present THEN loaded
  ELSE [NoMemory EXCEPT !.present = TRUE, !.lastClassifications = <<"action">>]

\* updateMemory: the loaded record, or a fresh one when loadContext gave null.
MemoryOrDefault(loaded) ==
  IF loaded.present THEN loaded ELSE [NoMemory EXCEPT !.present = TRUE]

\* A faulty update: the labels are put in front and the list is never cut.
UpdatedMemoryNoSlice(memory, classifications) ==
  LET labels == [k \in 1..Len(classifications) |-> classifications[k].classification]
      withLabels ==
        [memory EXCEPT !.lastClassifications = labels \o memory.lastClassifications]
  IN  RecordCharacters(withLabels, classifications)

\* updateMemory between its load and its save: the record that will be saved.
UpdatedMemory(memory, classifications) ==
  LET labels == [k \in 1..Len(classifications) |-> classifications[k].classification]
      withLabels ==
        [memory EXCEPT !.lastClassifications =
           SliceFirst(labels \o memory.lastClassifications, MAX_LAST_CLASSIFICATIONS)]
  IN  RecordCharacters(withLabels, classifications)

\* saveContext(sessionId, memory)
saveContext(store, sessionId, memory) == [store EXCEPT ![sessionId] = memory]

\* updateMemory(sessionId, classifications) run without interruption: the store
\* after the save.
updateMemory(store, sessionId, classifications) ==
  saveContext(store, sessionId,
              UpdatedMemory(MemoryOrDefault(loadContext(store, sessionId)),
                            classifications))

\* ----------------------------------------- memory-enhanced classification

\* recentPattern.startsWith("character-dialogue"), recentPattern being the first
\* three recorded labels joined by "-".
StartsWithCharacterDialogue(recent) ==
  Len(recent) >= 2 /\ recent[1] = "character" /\ recent[2] = "dialogue"

classifyWithContextAndMemory(l, ctx, memoryManager, store, sessionId) ==
  LET classification == classifyWithContext(l, ctx)
      memory == loadContext(store, sessionId)
      normalized == RemoveColons(normalizeLine(l))
      knownCharacter ==
        \E k \in 1..Len(memory.commonCharacters) :
          \/ Includes(memory.commonCharacters[k], normalized)
          \/ Includes(normalized, memory.commonCharacters[k])
      c1 == IF /\ ctx.stats.isShort
               /\ ~ctx.stats.hasPunctuation
               /\ knownCharacter
               /\ ctx.stats.wordCount <= 3
               /\ TextLength(l) < 40
            THEN "character" ELSE classification
      recent == SliceFirst(memory.lastClassifications, 3)
      lastType == LastOf(ctx.previousTypes)
      c2 == IF /\ StartsWithCharacterDialogue(recent)
               /\ lastType = "dialogue"
               /\ ~ctx.stats.hasColon
               /\ isLikelyAction(l)
            THEN "action" ELSE c1
      c3 == IF /\ recent = <<"dialogue", "dialogue", "dialogue">>
               /\ lastType = "dialogue"
               /\ ~ctx.stats.hasColon
               /\ ~isCompleteSceneHeader(l)
            THEN "dialogue" ELSE c2
      c4 == IF /\ recent = <<"action", "action", "action">>
               /\ lastType = "action"
               /\ ctx.stats.isLong
            THEN "action" ELSE c3
      \* memory.data.commonCharacters.find(...) throws a TypeError
      throwsAtCharacters ==
        /\ ctx.stats.isShort
        /\ ~ctx.stats.hasPunctuation
        /\ memory.faults \cap {"data", "commonCharacters"} # {}
      \* memory.data.lastClassifications.slice(0, 3) throws a TypeError
      throwsAtRecent == memory.faults \cap {"data", "lastClassifications"} # {}
  IN  IF ~memoryManager THEN classification
      ELSE IF "load" \in memory.faults THEN classification
      ELSE IF ~memory.present THEN classification
      ELSE IF throwsAtCharacters THEN classification
      ELSE IF throwsAtRecent THEN c1
      ELSE c4

\* ------------------------------------------------------------------- inputs

\* The lines a pasted text is made of (each non-empty after trim).
Lexicon ==
  { <<"bism", "allah", "alrahman", "alrahim">>,
    <<"bism", "allah", "colon", "alrahman", "alrahim">>,
    <<"mashhad", "n1", "dash", "dakhili", "layl">>,
    <<"mashhad", "n1", "colon", "dakhili", "layl">>,
    <<"mashhad", "n1">>,
    <<"qat3", "dakhili", "layl">>,
    <<"qat3">>,
    <<"lparen", "yadkhul", "rparen">>,
    <<"yadkhul", "ali">>,
    <<"ali", "colon">>,
    <<"ali">>,
    <<"ali", "colon", "med">>,
    <<"med">> }

MaxLines == 3

RECURSIVE SeqsUpTo(_, _)
\* The sequences over S of length 1 to n.
SeqsUpTo(S, n) ==
  IF n = 0 THEN {}
  ELSE LET shorter == SeqsUpTo(S, n - 1)
       IN  {<<x>> : x \in S} \cup shorter \cup
           {Append(q, x) : q \in shorter, x \in S}

Batches == SeqsUpTo(Lexicon, MaxLines)

\* The classification records earlier batches may have handed to updateMemory.
RecordedHistories ==
  { <<[line |-> <<"med">>, classification |-> "dialogue"],
      [line |-> <<"med">>, classification |-> "dialogue"],
      [line |-> <<"med">>, classification |-> "dialogue"],
      [line |-> <<"ali", "colon">>, classification |-> "character"]>>,
    <<[line |-> <<"ali", "colon">>, classification |-> "character"],
      [line |-> <<"med">>, classification |-> "dialogue"],
      [line |-> <<"yadkhul", "ali">>, classification |-> "action"]>> }

EmptyStore == [id \in SessionIds |-> NoMemory]

\* The stores a batch may find: nothing recorded, or one earlier update for s1.
Stores == {EmptyStore} \cup {updateMemory(EmptyStore, "s1", h) : h \in RecordedHistories}

\* -------------------------------------------------------------------- state

VARIABLES
  pc,                   \* "idle", "loop" (inside handlePaste's for loop), "done"
  lines,                \* handlePaste: lines
  idx,                  \* handlePaste: i, counted from 1
  classifiedTypes,      \* handlePaste: classifiedTypes
  previousFormatClass,  \* handlePaste: previousFormatClass
  formattedHTML,        \* handlePaste: formattedHTML, as the sequence of its blocks
  memoryManager,        \* handlePaste: memoryManager is not null
  sessionId,            \* handlePaste: sessionId
  storage,              \* ContextMemoryManager.storage
  trace,                \* per line: the context it was classified in and its labels
  spPrev, spCur, spOut, \* one call of getSpacingMarginTop and its result
  pasteBatchId,         \* the id of the batch being pasted (0 before the first)
  pendingRegistry,      \* the PendingConfirmations registered so far, all batches
  pendingConfirmations, \* EditorArea: pendingConfirmations
  notifierCalls,        \* every call of the pending-batch notifier, in order
  pendingRuns,          \* the invocations of handleRunPendingConfirmations under way
  confirmationState,    \* EditorArea: confirmationState
  document,             \* the blocks in the editor, batch after batch
  updates,              \* the calls of updateMemory so far, each with its locals
  clock,                \* the timestamp of the record classified last
  recordedAt,           \* per session: the timestamps of the labels of lastClassifications
  lookup,               \* the last memory lookup of a classification
  rerun,                \* the locals of a second run of the classification loop
  editor,               \* the blocks of the editor and the window's selection
  pasteEvent,           \* the clipboard text of the paste and the editor as it found it
  importer,             \* EditorArea: the sheets' bodies, the selection, the imports so far
  resolverCalls,        \* the batch ids runPendingPasteConfirmations was called with, in order
  extraction,           \* the last call of extractFileText: what it met and what it gave
  commandHistory        \* EditorArea: commandHistoryRef.current, the bodies' HTML, the commands under way

vars == <<pc, lines, idx, classifiedTypes, previousFormatClass, formattedHTML,
          memoryManager, sessionId, storage, trace, spPrev, spCur, spOut,
          pasteBatchId, pendingRegistry, pendingConfirmations, notifierCalls,
          pendingRuns, confirmationState, document,
          updates, clock, recordedAt, lookup, rerun, editor, pasteEvent, importer,
          resolverCalls, extraction, commandHistory>>

editorVars == <<editor, pasteEvent>>

callVars == <<importer, resolverCalls, extraction, commandHistory>>

memVars == <<updates, clock, recordedAt, lookup>>

confirmVars == <<pasteBatchId, pendingRegistry, pendingConfirmations, notifierCalls,
                 pendingRuns, confirmationState, document>>

\* confirmationState as useState initialises it; entry is the index in
\* pendingRegistry of the confirmation the dialog's resolve belongs to, 0 for null.
ClosedConfirmation ==
  [open |-> FALSE, line |-> <<>>, suggestedType |-> "action", entry |-> 0]

\* No classification has consulted the memory yet.
NoLookup ==
  [sessionId |-> "", line |-> <<>>, previousTypes |-> <<>>, label |-> "", alone |-> "",
   ruleLabel |-> ""]

\* No paste has happened.
NoPasteEvent == [textData |-> "none", content |-> <<>>, selection |-> "none"]

\* A block that is in the editor before the paste.
EarlierBlock ==
  [label |-> "action", text |-> <<"yadkhul", "ali">>, marginTop |-> "",
   parent |-> "", parentMarginTop |-> ""]

\* The editor as a paste may find it: empty or holding a block; no selection
\* (rangeCount 0), a caret at the end, or a range over the whole content.
EditorStates ==
  { [content |-> <<>>, selection |-> "none"],
    [content |-> <<>>, selection |-> "caret"],
    [content |-> <<EarlierBlock>>, selection |-> "none"],
    [content |-> <<EarlierBlock>>, selection |-> "caret"],
    [content |-> <<EarlierBlock>>, selection |-> "range"] }

\* No file has been handed to extractFileText.
\* The command history of a mounted editor: nothing to undo or redo, no undo
\* or redo being applied; html is the HTML of the bodies, inFlight holds the
\* before snapshots of the commands whose operation has not ended, undos
\* counts the undo operations and last names the last step on the history.
NoCommands ==
  [undo |-> <<>>, redo |-> <<>>, applying |-> FALSE,
   html |-> "h1", inFlight |-> <<>>, undos |-> 0,
   last |-> [op |-> "none", before |-> "h1", after |-> "h1",
             undoBefore |-> 0, redoBefore |-> 0]]

NoExtraction == [fileType |-> "", env |-> [none |-> TRUE], result |-> [none |-> TRUE]]

\* One sheet with an empty body and a caret in it, nothing imported yet.
NoImports ==
  [bodies |-> << <<>> >>, selection |-> [body |-> 1, at |-> "end"],
   requests |-> <<>>, handlePasteCalls |-> <<>>]

\* The locals of handlePaste before its loop, for the second run.
NotRerun ==
  [idx |-> 1, classifiedTypes |-> <<>>, previousFormatClass |-> "action",
   formattedHTML |-> <<>>]

NoConfirmations ==
  /\ pasteBatchId = 0
  /\ pendingRegistry = <<>>
  /\ pendingConfirmations = <<>>
  /\ notifierCalls = <<>>
  /\ pendingRuns = <<>>
  /\ confirmationState = ClosedConfirmation
  /\ document = <<>>
  /\ updates = <<>>
  /\ clock = 0
  /\ recordedAt = [id \in SessionIds |-> <<>>]
  /\ lookup = NoLookup
  /\ rerun = NotRerun
  /\ pasteEvent = NoPasteEvent
  /\ importer = NoImports
  /\ resolverCalls = <<>>
  /\ extraction = NoExtraction
  /\ commandHistory = NoCommands

pasteVars == <<pc, lines, idx, classifiedTypes, previousFormatClass, formattedHTML,
               memoryManager, sessionId, storage, trace>>

Init ==
  /\ pc = "idle"
  /\ lines = <<>>
  /\ idx = 1
  /\ classifiedTypes = <<>>
  /\ previousFormatClass = "action"
  /\ formattedHTML = <<>>
  /\ memoryManager \in BOOLEAN
  /\ sessionId = "s1"
  /\ storage \in Stores
  /\ (~memoryManager => storage = EmptyStore)
  /\ trace = <<>>
  /\ spPrev = "action" /\ spCur = "action" /\ spOut = ""
  /\ NoConfirmations
  /\ editor = [content |-> <<>>, selection |-> "caret"]

\* ------------------------------------------------------------ paste handler

\* The clipboard texts: the empty string, a text of nothing but white space and
\* line breaks, and the texts with lines; lines holds what
\* textData.split("\n").filter((line) => line.trim()) keeps of the text.
Texts ==
  { [kind |-> "empty", lines |-> <<>>], [kind |-> "blank", lines |-> <<>>] } \cup
  { [kind |-> "text", lines |-> batch] : batch \in Batches }

\* handlePaste up to its for loop: it returns for an empty text and for a
\* window without selection; otherwise the text is split into its non-empty
\* lines.
StartPasteFrom(texts) ==
  /\ pc = "idle"
  /\ \E textData \in texts :
       /\ pasteEvent' = [textData |-> textData.kind,
                         content |-> editor.content,
                         selection |-> editor.selection]
       /\ IF textData.kind = "empty" \/ editor.selection = "none"
          THEN lines' = <<>> /\ pc' = "done"
          ELSE lines' = textData.lines /\ pc' = "loop"
  /\ idx' = 1
  /\ classifiedTypes' = <<>>
  /\ previousFormatClass' = "action"
  /\ formattedHTML' = <<>>
  /\ trace' = <<>>
  /\ UNCHANGED <<memoryManager, sessionId, storage, spPrev, spCur, spOut, editor>>
  /\ UNCHANGED <<confirmVars, memVars, rerun, callVars>>

\* What one iteration of the for loop appends, for a line and its context.
LineResult(trimmedLine, ctx, prevClass, manager, store, session) ==
  LET strippedLine == stripLeadingBullets(trimmedLine)
      inlineParsed == parseInlineCharacterDialogue(strippedLine)
      rule == classifyStep(strippedLine, ctx)
      ruleLabel == classifyWithContext(strippedLine, ctx)
      classification ==
        classifyWithContextAndMemory(strippedLine, ctx, manager, store, session)
      parts == splitSceneHeader(strippedLine)
      topLevelMarginTop == getSpacingMarginTop(prevClass, "scene-header-top-line")
  IN  IF inlineParsed.ok
      THEN [blocks |->
              << buildLineDivHTML("character", inlineParsed.characterName,
                                  getSpacingMarginTop(prevClass, "character")),
                 buildLineDivHTML("dialogue", inlineParsed.dialogueText, "0") >>,
            labels |-> <<"character", "dialogue">>,
            previous |-> "dialogue",
            ctx |-> ctx, inline |-> TRUE, rule |-> rule, ruleLabel |-> ruleLabel,
            line |-> strippedLine]
      ELSE IF classification = "scene-header-top-line" /\ parts.ok
      THEN [blocks |->
              << [buildLineDivHTML("scene-header-1", parts.number, "")
                    EXCEPT !.parent = "scene-header-top-line",
                           !.parentMarginTop = topLevelMarginTop],
                 [buildLineDivHTML("scene-header-2", parts.description, "")
                    EXCEPT !.parent = "scene-header-top-line",
                           !.parentMarginTop = topLevelMarginTop] >>,
            labels |-> <<"scene-header-top-line">>,
            previous |-> "scene-header-top-line",
            ctx |-> ctx, inline |-> FALSE, rule |-> rule, ruleLabel |-> ruleLabel,
            line |-> strippedLine]
      ELSE [blocks |->
              << buildLineDivHTML(classification, strippedLine,
                                  getSpacingMarginTop(prevClass, classification)) >>,
            labels |-> <<classification>>,
            previous |-> classification,
            ctx |-> ctx, inline |-> FALSE, rule |-> rule, ruleLabel |-> ruleLabel,
            line |-> strippedLine]

StartPaste == StartPasteFrom(Texts)

\* A faulty iteration: one label is pushed per line, so the dialogue label of an
\* inline split never enters the history handed to the lines after it.
ClassifyLineOneLabelPerLine ==
  /\ pc = "loop"
  /\ idx <= Len(lines)
  /\ \E ctx \in {buildContext(lines, idx, classifiedTypes)} :
     \E r \in {LineResult(lines[idx], ctx, previousFormatClass,
                          memoryManager, storage, sessionId)} :
       /\ formattedHTML' = formattedHTML \o r.blocks
       /\ classifiedTypes' = Append(classifiedTypes, r.labels[1])
       /\ previousFormatClass' = r.previous
       /\ trace' = Append(trace, [line |-> r.line,
                                  previousTypes |-> r.ctx.previousTypes,
                                  isInDialogueBlock |-> r.ctx.pattern.isInDialogueBlock,
                                  inline |-> r.inline,
                                  rule |-> r.rule,
                                  ruleLabel |-> r.ruleLabel,
                                  labels |-> r.labels,
                                  at |-> Len(formattedHTML) + 1])
  /\ idx' = idx + 1
  /\ UNCHANGED <<pc, lines, memoryManager, sessionId, storage, spPrev, spCur, spOut>>
  /\ UNCHANGED <<confirmVars, memVars, rerun, editorVars, callVars>>

\* A faulty iteration: the line is classified before the session memory is
\* at hand, by the rules alone.
ClassifyLineWithoutMemory ==
  /\ pc = "loop"
  /\ idx <= Len(lines)
  /\ \E ctx \in {buildContext(lines, idx, classifiedTypes)} :
     \E r \in {LineResult(lines[idx], ctx, previousFormatClass,
                          FALSE, storage, sessionId)} :
       /\ formattedHTML' = formattedHTML \o r.blocks
       /\ classifiedTypes' = classifiedTypes \o r.labels
       /\ previousFormatClass' = r.previous
       /\ trace' = Append(trace, [line |-> r.line,
                                  previousTypes |-> r.ctx.previousTypes,
                                  isInDialogueBlock |-> r.ctx.pattern.isInDialogueBlock,
                                  inline |-> r.inline,
                                  rule |-> r.rule,
                                  ruleLabel |-> r.ruleLabel,
                                  labels |-> r.labels,
                                  at |-> Len(formattedHTML) + 1])
  /\ idx' = idx + 1
  /\ UNCHANGED <<pc, lines, memoryManager, sessionId, storage, spPrev, spCur, spOut>>
  /\ UNCHANGED <<confirmVars, memVars, rerun, editorVars, callVars>>

\* A faulty iteration: the failure of the memory is not caught, and the
\* exception leaves the loop and the handler at the line it happened at.
ClassifyLineNoCatch ==
  /\ pc = "loop"
  /\ idx <= Len(lines)
  /\ \E ctx \in {buildContext(lines, idx, classifiedTypes)} :
     \E r \in {LineResult(lines[idx], ctx, previousFormatClass,
                          memoryManager, storage, sessionId)} :
       /\ ~(memoryManager /\ ~r.inline /\ storage[sessionId].faults # {})
       /\ formattedHTML' = formattedHTML \o r.blocks
       /\ classifiedTypes' = classifiedTypes \o r.labels
       /\ previousFormatClass' = r.previous
       /\ trace' = Append(trace, [line |-> r.line,
                                  previousTypes |-> r.ctx.previousTypes,
                                  isInDialogueBlock |-> r.ctx.pattern.isInDialogueBlock,
                                  inline |-> r.inline,
                                  rule |-> r.rule,
                                  ruleLabel |-> r.ruleLabel,
                                  labels |-> r.labels,
                                  at |-> Len(formattedHTML) + 1])
  /\ idx' = idx + 1
  /\ UNCHANGED <<pc, lines, memoryManager, sessionId, storage, spPrev, spCur, spOut>>
  /\ UNCHANGED <<confirmVars, memVars, rerun, editorVars, callVars>>

\* One iteration of handlePaste's for loop.
ClassifyLine ==
  /\ pc = "loop"
  /\ idx <= Len(lines)
  /\ \E ctx \in {buildContext(lines, idx, classifiedTypes)} :
     \E r \in {LineResult(lines[idx], ctx, previousFormatClass,
                          memoryManager, storage, sessionId)} :
       /\ formattedHTML' = formattedHTML \o r.blocks
       /\ classifiedTypes' = classifiedTypes \o r.labels
       /\ previousFormatClass' = r.previous
       /\ trace' = Append(trace, [line |-> r.line,
                                  previousTypes |-> r.ctx.previousTypes,
                                  isInDialogueBlock |-> r.ctx.pattern.isInDialogueBlock,
                                  inline |-> r.inline,
                                  rule |-> r.rule,
                                  ruleLabel |-> r.ruleLabel,
                                  labels |-> r.labels,
                                  at |-> Len(formattedHTML) + 1])
  /\ idx' = idx + 1
  /\ UNCHANGED <<pc, lines, memoryManager, sessionId, storage, spPrev, spCur, spOut>>
  /\ UNCHANGED <<confirmVars, memVars, rerun, editorVars, callVars>>

\* range.deleteContents() and range.insertNode(fragment): what the selection
\* covers is taken out and the blocks are put in its place.
InsertAtSelection(ed, blocks) ==
  IF ed.selection = "range" THEN blocks ELSE ed.content \o blocks

\* handlePaste after the loop: the content of the selection is deleted, the
\* blocks are inserted there, and the selection becomes a caret at the end of
\* the editor's last child, or nothing when the editor has no child.
FinishPaste ==
  /\ pc = "loop"
  /\ idx > Len(lines)
  /\ pc' = "done"
  /\ \E content \in {InsertAtSelection(editor, formattedHTML)} :
       editor' = [content |-> content,
                  selection |-> IF content = <<>> THEN "none" ELSE "caret"]
  /\ UNCHANGED <<lines, idx, classifiedTypes, previousFormatClass, formattedHTML,
                 memoryManager, sessionId, storage, trace, spPrev, spCur, spOut,
                 pasteEvent>>
  /\ UNCHANGED <<confirmVars, memVars, rerun, callVars>>

Next == StartPaste \/ ClassifyLine \/ FinishPaste

Spec == Init /\ [][Next]_vars

\* ------------------------------------------- the paste and the editor

\* The paste handler of src/lib without a memory manager, over every state the
\* editor may be in.
InitEditor ==
  /\ pc = "idle"
  /\ lines = <<>> /\ idx = 1 /\ classifiedTypes = <<>>
  /\ previousFormatClass = "action" /\ formattedHTML = <<>>
  /\ memoryManager = FALSE /\ sessionId = "s1" /\ storage = EmptyStore
  /\ trace = <<>>
  /\ spPrev = "action" /\ spCur = "action" /\ spOut = ""
  /\ pasteBatchId = 0 /\ pendingRegistry = <<>> /\ pendingConfirmations = <<>>
  /\ notifierCalls = <<>> /\ pendingRuns = <<>>
  /\ confirmationState = ClosedConfirmation /\ document = <<>>
  /\ updates = <<>> /\ clock = 0 /\ recordedAt = [id \in SessionIds |-> <<>>]
  /\ lookup = NoLookup /\ rerun = NotRerun /\ pasteEvent = NoPasteEvent
  /\ importer = NoImports
  /\ resolverCalls = <<>>
  /\ extraction = NoExtraction
  /\ commandHistory = NoCommands
  /\ editor \in EditorStates

SpecEditor == InitEditor /\ [][Next]_vars

\* ------------------------------------------- the classification run twice

\* The loop of handlePaste run once more over the same lines, from an empty
\* label history, with the memory manager, session and store as they are.
RerunLine ==
  /\ pc = "done"
  /\ rerun.idx <= Len(lines)
  /\ \E ctx \in {buildContext(lines, rerun.idx, rerun.classifiedTypes)} :
     \E r \in {LineResult(lines[rerun.idx], ctx, rerun.previousFormatClass,
                          memoryManager, storage, sessionId)} :
       rerun' = [idx |-> rerun.idx + 1,
                 classifiedTypes |-> rerun.classifiedTypes \o r.labels,
                 previousFormatClass |-> r.previous,
                 formattedHTML |-> rerun.formattedHTML \o r.blocks]
  /\ UNCHANGED <<pasteVars, spPrev, spCur, spOut, confirmVars, memVars, editorVars, callVars>>

NextRerun == StartPaste \/ ClassifyLine \/ FinishPaste \/ RerunLine

SpecRerun == Init /\ [][NextRerun]_vars

\* ------------------------------------------- the spacing rule engine alone

InitSpacing ==
  /\ pc = "spacing"
  /\ lines = <<>> /\ idx = 1 /\ classifiedTypes = <<>>
  /\ previousFormatClass = "action" /\ formattedHTML = <<>>
  /\ memoryManager = FALSE /\ sessionId = "s1" /\ storage = EmptyStore
  /\ trace = <<>>
  /\ spPrev = "action" /\ spCur = "action" /\ spOut = "unasked"
  /\ NoConfirmations
  /\ editor = [content |-> <<>>, selection |-> "caret"]

AskSpacing ==
  /\ pc = "spacing"
  /\ \E p \in Labels, c \in Labels :
       /\ spPrev' = p
       /\ spCur' = c
       /\ spOut' = getSpacingMarginTop(p, c)
  /\ UNCHANGED pasteVars
  /\ UNCHANGED <<confirmVars, memVars, rerun, editorVars, callVars>>

NextSpacing == AskSpacing

SpecSpacing == InitSpacing /\ [][NextSpacing]_vars

\* ------------------------------------------------ confirmation protocol
\* The paste handler the editor calls (@/utils/paste-classifier) takes the
\* requestConfirmation callback and the pending-batch notifier; its file is not
\* among the sources, so what it does with them follows section 4.6 of the
\* specification.  The editor's side of the protocol follows EditorArea.tsx.

\* The lines pasted when confirmations are followed: a character cue, a bare
\* name, a prose line and an action line.
ConfLexicon ==
  { <<"ali", "colon">>, <<"ali">>, <<"med">>, <<"yadkhul", "ali">> }

ConfMaxLines == 2
MaxBatches == 2

ConfBatches == SeqsUpTo(ConfLexicon, ConfMaxLines)

\* The labels the user may pick in the confirmation dialog.
ConfirmChoices == {"character", "action"}

\* Section 4.6: the confidence tier is the lower one for the labels of the
\* short-line character heuristics, steps 10 and 11 of the rule-based classifier.
isLowConfidence(r) ==
  /\ ~r.inline
  /\ r.rule.step \in {10, 11}
  /\ r.labels = <<r.rule.label>>

\* The PendingConfirmations registered under a batch id, as indices of the registry.
PendingOf(registry, batchId) ==
  {k \in 1..Len(registry) : registry[k].pasteBatchId = batchId}

Unresolved(registry, batchId) ==
  {k \in PendingOf(registry, batchId) : ~registry[k].resolved}

\* EditorArea's notifier callback: one entry is appended to pendingConfirmations.
onPendingConfirmations(prev, batchId, pendingCount) ==
  Append(prev, [pasteBatchId |-> batchId, count |-> pendingCount])

RECURSIVE Deliver(_, _)
\* The notifier's calls reach the editor's callback one by one.
Deliver(prev, calls) ==
  IF calls = <<>> THEN prev
  ELSE Deliver(onPendingConfirmations(prev, Head(calls).pasteBatchId, Head(calls).count),
               Tail(calls))

\* A faulty notification: the notifier is called once for every pending line.
NotifyPendingPerLine(calls, batchId, pendingCount) ==
  calls \o [k \in 1..pendingCount |-> [pasteBatchId |-> batchId, count |-> 1]]

\* Section 4.6: the caller is notified once per batch, with the count of pending
\* confirmations; a batch without pending confirmations notifies nobody.
NotifyPending(calls, batchId, pendingCount) ==
  IF pendingCount > 0
  THEN Append(calls, [pasteBatchId |-> batchId, count |-> pendingCount])
  ELSE calls

\* The editor before any paste, no memory manager attached.
InitConfirm ==
  /\ pc = "idle"
  /\ lines = <<>>
  /\ idx = 1
  /\ classifiedTypes = <<>>
  /\ previousFormatClass = "action"
  /\ formattedHTML = <<>>
  /\ memoryManager = FALSE
  /\ sessionId = "s1"
  /\ storage = EmptyStore
  /\ trace = <<>>
  /\ spPrev = "action" /\ spCur = "action" /\ spOut = ""
  /\ NoConfirmations
  /\ editor = [content |-> <<>>, selection |-> "caret"]

\* The paste handler up to its loop, under a fresh batch id.
StartPasteConfirmFrom(batches, maxBatches) ==
  /\ pc \in {"idle", "done"}
  /\ pasteBatchId < maxBatches
  /\ \E batch \in batches : lines' = batch
  /\ pasteBatchId' = pasteBatchId + 1
  /\ idx' = 1
  /\ classifiedTypes' = <<>>
  /\ previousFormatClass' = "action"
  /\ formattedHTML' = <<>>
  /\ trace' = <<>>
  /\ pc' = "loop"
  /\ UNCHANGED <<memVars, rerun, editorVars, callVars>>
  /\ UNCHANGED <<memoryManager, sessionId, storage, spPrev, spCur, spOut,
                 pendingRegistry, pendingConfirmations, notifierCalls, pendingRuns,
                 confirmationState, document>>

StartPasteConfirm == StartPasteConfirmFrom(ConfBatches, MaxBatches)

\* A faulty iteration: the loop goes on to the next line only once every
\* confirmation the batch has registered is resolved.
ClassifyLineConfirmAwaiting ==
  /\ Unresolved(pendingRegistry, pasteBatchId) = {}
  /\ pc = "loop"
  /\ idx <= Len(lines)
  /\ \E ctx \in {buildContext(lines, idx, classifiedTypes)} :
     \E r \in {LineResult(lines[idx], ctx, previousFormatClass,
                          memoryManager, storage, sessionId)} :
       /\ formattedHTML' = formattedHTML \o r.blocks
       /\ classifiedTypes' = classifiedTypes \o r.labels
       /\ previousFormatClass' = r.previous
       /\ trace' = Append(trace, [line |-> r.line,
                                  previousTypes |-> r.ctx.previousTypes,
                                  isInDialogueBlock |-> r.ctx.pattern.isInDialogueBlock,
                                  inline |-> r.inline,
                                  rule |-> r.rule,
                                  ruleLabel |-> r.ruleLabel,
                                  labels |-> r.labels,
                                  at |-> Len(formattedHTML) + 1])
       /\ pendingRegistry' =
            IF isLowConfidence(r)
            THEN Append(pendingRegistry,
                        [pasteBatchId |-> pasteBatchId,
                         at |-> Len(formattedHTML) + 1,
                         line |-> r.line,
                         suggestedType |-> r.labels[1],
                         requested |-> FALSE,
                         rejected |-> FALSE,
                         resolved |-> FALSE,
                         finalType |-> r.labels[1]])
            ELSE pendingRegistry
  /\ idx' = idx + 1
  /\ UNCHANGED <<memVars, rerun, editorVars, callVars>>
  /\ UNCHANGED <<pc, lines, memoryManager, sessionId, storage, spPrev, spCur, spOut,
                 pasteBatchId, pendingConfirmations, notifierCalls, pendingRuns,
                 confirmationState, document>>

\* One iteration of the loop: the line is emitted under its label at once; a
\* low-confidence label is registered as a PendingConfirmation under the batch id
\* and stands as the final label until a confirmation replaces it.
ClassifyLineConfirm ==
  /\ pc = "loop"
  /\ idx <= Len(lines)
  /\ \E ctx \in {buildContext(lines, idx, classifiedTypes)} :
     \E r \in {LineResult(lines[idx], ctx, previousFormatClass,
                          memoryManager, storage, sessionId)} :
       /\ formattedHTML' = formattedHTML \o r.blocks
       /\ classifiedTypes' = classifiedTypes \o r.labels
       /\ previousFormatClass' = r.previous
       /\ trace' = Append(trace, [line |-> r.line,
                                  previousTypes |-> r.ctx.previousTypes,
                                  isInDialogueBlock |-> r.ctx.pattern.isInDialogueBlock,
                                  inline |-> r.inline,
                                  rule |-> r.rule,
                                  ruleLabel |-> r.ruleLabel,
                                  labels |-> r.labels,
                                  at |-> Len(formattedHTML) + 1])
       /\ pendingRegistry' =
            IF isLowConfidence(r)
            THEN Append(pendingRegistry,
                        [pasteBatchId |-> pasteBatchId,
                         at |-> Len(formattedHTML) + 1,
                         line |-> r.line,
                         suggestedType |-> r.labels[1],
                         requested |-> FALSE,
                         rejected |-> FALSE,
                         resolved |-> FALSE,
                         finalType |-> r.labels[1]])
            ELSE pendingRegistry
  /\ idx' = idx + 1
  /\ UNCHANGED <<memVars, rerun, editorVars, callVars>>
  /\ UNCHANGED <<pc, lines, memoryManager, sessionId, storage, spPrev, spCur, spOut,
                 pasteBatchId, pendingConfirmations, notifierCalls, pendingRuns,
                 confirmationState, document>>

\* The blocks of a batch as the editor holds them once they are inserted.
InsertedBlocks(blocks, batchId) ==
  [k \in 1..Len(blocks) |->
     [pasteBatchId |-> batchId, at |-> k, label |-> blocks[k].label]]

\* After the loop: the blocks are inserted and the notifier is told how many
\* confirmations the batch left pending.
FinishPasteConfirm ==
  /\ pc = "loop"
  /\ idx > Len(lines)
  /\ pc' = "done"
  /\ LET pendingCount == Cardinality(PendingOf(pendingRegistry, pasteBatchId))
         calls == NotifyPending(<<>>, pasteBatchId, pendingCount)
     IN  /\ notifierCalls' = notifierCalls \o calls
         /\ pendingConfirmations' = Deliver(pendingConfirmations, calls)
  /\ document' = document \o InsertedBlocks(formattedHTML, pasteBatchId)
  /\ UNCHANGED <<memVars, rerun, editorVars, callVars>>
  /\ UNCHANGED <<lines, idx, classifiedTypes, previousFormatClass, formattedHTML,
                 memoryManager, sessionId, storage, trace, spPrev, spCur, spOut,
                 pasteBatchId, pendingRegistry, pendingRuns, confirmationState>>

\* EditorArea.handleRunPendingConfirmations: the listed batches are copied and
\* the list is emptied; the invocation then runs its batches one after the
\* other.  Nothing keeps a second invocation from starting while an earlier one
\* is still awaiting an answer.
handleRunPendingConfirmations ==
  /\ Len(pendingConfirmations) > 0
  /\ pendingRuns' = Append(pendingRuns,
                           [batches |-> [k \in 1..Len(pendingConfirmations) |->
                                           pendingConfirmations[k].pasteBatchId],
                            awaiting |-> 0])
  /\ pendingConfirmations' = <<>>
  /\ resolverCalls' = Append(resolverCalls, pendingConfirmations[1].pasteBatchId)
  /\ UNCHANGED <<memVars, rerun, editorVars, importer, extraction, commandHistory>>
  /\ UNCHANGED <<pasteVars, spPrev, spCur, spOut, pasteBatchId, pendingRegistry,
                 notifierCalls, confirmationState, document>>

\* EditorArea.requestConfirmation: setConfirmationState replaces the whole
\* state, the resolve of the new promise included, whatever the state held.
requestConfirmation(line, suggestedType, entry) ==
  [open |-> TRUE, line |-> line, suggestedType |-> suggestedType, entry |-> entry]

\* The confirmations of a batch an invocation has still to ask for.
ToAsk(registry, batchId) ==
  {k \in Unresolved(registry, batchId) : ~registry[k].rejected}

NextToAsk(registry, batchId) ==
  CHOOSE k \in ToAsk(registry, batchId) : \A j \in ToAsk(registry, batchId) : k <= j

\* runPendingPasteConfirmations(batchId), one step: the confirmation callback is
\* invoked for the next pending line of the batch and its promise is awaited.
runPendingPasteConfirmations ==
  \E r \in 1..Len(pendingRuns) :
    /\ pendingRuns[r].awaiting = 0
    /\ ToAsk(pendingRegistry, Head(pendingRuns[r].batches)) # {}
    /\ \E entry \in {NextToAsk(pendingRegistry, Head(pendingRuns[r].batches))} :
         /\ confirmationState' =
              requestConfirmation(pendingRegistry[entry].line,
                                  pendingRegistry[entry].suggestedType, entry)
         /\ pendingRegistry' = [pendingRegistry EXCEPT ![entry].requested = TRUE]
         /\ pendingRuns' = [pendingRuns EXCEPT ![r].awaiting = entry]
    /\ UNCHANGED <<memVars, rerun, editorVars, callVars>>
    /\ UNCHANGED <<pasteVars, spPrev, spCur, spOut, pasteBatchId,
                   pendingConfirmations, notifierCalls, document>>

\* The sequence without its element at position r.
RemoveAt(s, r) == SubSeq(s, 1, r - 1) \o SubSeq(s, r + 1, Len(s))

\* runPendingPasteConfirmations(batchId) returns: no line of the batch is left
\* to ask for.  The invocation goes on to its next batch, or ends.
runPendingPasteConfirmationsDone ==
  \E r \in 1..Len(pendingRuns) :
    /\ pendingRuns[r].awaiting = 0
    /\ ToAsk(pendingRegistry, Head(pendingRuns[r].batches)) = {}
    /\ pendingRuns' =
         IF Len(pendingRuns[r].batches) = 1
         THEN RemoveAt(pendingRuns, r)
         ELSE [pendingRuns EXCEPT ![r].batches = Tail(pendingRuns[r].batches)]
    /\ resolverCalls' =
         IF Len(pendingRuns[r].batches) = 1 THEN resolverCalls
         ELSE Append(resolverCalls, pendingRuns[r].batches[2])
    /\ UNCHANGED <<memVars, rerun, editorVars, importer, extraction, commandHistory>>
    /\ UNCHANGED <<pasteVars, spPrev, spCur, spOut, pasteBatchId, pendingRegistry,
                   pendingConfirmations, notifierCalls, confirmationState, document>>

\* A faulty handling of a rejection: the block of the line is taken out of the
\* editor (fail-closed).
runPendingPasteConfirmationsRejectedFailClosed ==
  \E r \in 1..Len(pendingRuns) :
    /\ pendingRuns[r].awaiting = 0
    /\ ToAsk(pendingRegistry, Head(pendingRuns[r].batches)) # {}
    /\ \E entry \in {NextToAsk(pendingRegistry, Head(pendingRuns[r].batches))} :
         /\ pendingRegistry' = [pendingRegistry EXCEPT ![entry].rejected = TRUE]
         /\ document' = SelectSeq(document,
                LAMBDA b : ~(/\ b.pasteBatchId = pendingRegistry[entry].pasteBatchId
                             /\ b.at = pendingRegistry[entry].at))
    /\ pendingRuns' = pendingRuns
    /\ UNCHANGED <<memVars, rerun, editorVars, callVars>>
    /\ UNCHANGED <<pasteVars, spPrev, spCur, spOut, pasteBatchId,
                   pendingConfirmations, notifierCalls, confirmationState>>

\* The confirmation callback throws or rejects for the next pending line: the
\* line is left as it is.  The rejection is either swallowed, and the invocation
\* goes on with the next line, or it leaves runPendingPasteConfirmations, and
\* the loop of handleRunPendingConfirmations, which catches nothing, ends.
runPendingPasteConfirmationsRejected ==
  \E r \in 1..Len(pendingRuns) :
    /\ pendingRuns[r].awaiting = 0
    /\ ToAsk(pendingRegistry, Head(pendingRuns[r].batches)) # {}
    /\ \E entry \in {NextToAsk(pendingRegistry, Head(pendingRuns[r].batches))} :
         pendingRegistry' = [pendingRegistry EXCEPT ![entry].rejected = TRUE]
    /\ \E propagated \in BOOLEAN :
         pendingRuns' = IF propagated THEN RemoveAt(pendingRuns, r) ELSE pendingRuns
    /\ UNCHANGED <<memVars, rerun, editorVars, callVars>>
    /\ UNCHANGED <<pasteVars, spPrev, spCur, spOut, pasteBatchId,
                   pendingConfirmations, notifierCalls, confirmationState, document>>

\* The promise of requestConfirmation resolves with a label: the pending line
\* gets it as its final label.
Resolve(registry, entry, finalType) ==
  [registry EXCEPT ![entry].resolved = TRUE, ![entry].finalType = finalType]

\* A faulty relabelling: every block of the batch takes the final label.
RelabelWholeBatch(doc, batchId, at, finalType) ==
  [k \in 1..Len(doc) |->
     IF doc[k].pasteBatchId = batchId
     THEN [doc[k] EXCEPT !.label = finalType]
     ELSE doc[k]]

\* The block of a resolved confirmation takes the final label.
Relabel(doc, batchId, at, finalType) ==
  [k \in 1..Len(doc) |->
     IF doc[k].pasteBatchId = batchId /\ doc[k].at = at
     THEN [doc[k] EXCEPT !.label = finalType]
     ELSE doc[k]]

\* The invocation awaiting the resolved promise goes on.
Resume(runs, entry) ==
  [r \in 1..Len(runs) |->
     IF runs[r].awaiting = entry THEN [runs[r] EXCEPT !.awaiting = 0] ELSE runs[r]]

\* EditorArea.handleConfirmClassification: the user picks a label; the resolve
\* the dialog state holds is called with it.
handleConfirmClassification ==
  /\ confirmationState.open
  /\ \E finalType \in ConfirmChoices :
       /\ pendingRegistry' = Resolve(pendingRegistry, confirmationState.entry, finalType)
       /\ document' = Relabel(document,
                              pendingRegistry[confirmationState.entry].pasteBatchId,
                              pendingRegistry[confirmationState.entry].at, finalType)
  /\ pendingRuns' = Resume(pendingRuns, confirmationState.entry)
  /\ confirmationState' = [confirmationState EXCEPT !.open = FALSE, !.entry = 0]
  /\ UNCHANGED <<memVars, rerun, editorVars, callVars>>
  /\ UNCHANGED <<pasteVars, spPrev, spCur, spOut, pasteBatchId, pendingConfirmations,
                 notifierCalls>>

\* EditorArea.handleCancelConfirmation: the resolve is called with the
\* suggested label.
handleCancelConfirmation ==
  /\ confirmationState.open
  /\ pendingRegistry' = Resolve(pendingRegistry, confirmationState.entry,
                                confirmationState.suggestedType)
  /\ document' = Relabel(document,
                         pendingRegistry[confirmationState.entry].pasteBatchId,
                         pendingRegistry[confirmationState.entry].at,
                         confirmationState.suggestedType)
  /\ pendingRuns' = Resume(pendingRuns, confirmationState.entry)
  /\ confirmationState' = [confirmationState EXCEPT !.open = FALSE, !.entry = 0]
  /\ UNCHANGED <<memVars, rerun, editorVars, callVars>>
  /\ UNCHANGED <<pasteVars, spPrev, spCur, spOut, pasteBatchId, pendingConfirmations,
                 notifierCalls>>

NextConfirm ==
  \/ StartPasteConfirm
  \/ ClassifyLineConfirm
  \/ FinishPasteConfirm
  \/ handleRunPendingConfirmations
  \/ runPendingPasteConfirmations
  \/ runPendingPasteConfirmationsDone
  \/ runPendingPasteConfirmationsRejected
  \/ handleConfirmClassification
  \/ handleCancelConfirmation

SpecConfirm == InitConfirm /\ [][NextConfirm]_vars

\* The paste handler's own steps are taken whenever they can be: between them it
\* awaits nothing but its own classifier.  Nothing obliges the user to run or
\* answer confirmations.
SpecConfirmFair ==
  /\ SpecConfirm
  /\ WF_vars(ClassifyLineConfirm)
  /\ WF_vars(FinishPasteConfirm)

\* ------------------------------------------- draining the listed batches

MaxDrainBatches == 3

\* One batch that leaves a pending confirmation (a cue) and one that leaves none.
DrainBatches == { << <<"ali", "colon">> >>, << <<"med">> >> }

\* The editor's own confirmation callback, requestConfirmation, never rejects,
\* so no step for a rejected callback is here.
NextDrain ==
  \/ StartPasteConfirmFrom(DrainBatches, MaxDrainBatches)
  \/ ClassifyLineConfirm
  \/ FinishPasteConfirm
  \/ handleRunPendingConfirmations
  \/ runPendingPasteConfirmations
  \/ runPendingPasteConfirmationsDone
  \/ handleConfirmClassification
  \/ handleCancelConfirmation

SpecDrain == InitConfirm /\ [][NextDrain]_vars

\* ---------------------------------------- the memory manager under its callers

\* updateMemory awaits loadContext and then saveContext: between its load and
\* its save other calls, and lookups of the classifier, can run.

MemMaxCalls == 3
LongBatchLen == 11

\* The records one call of updateMemory is handed, in the order the lines were
\* classified: none, one, two, or a long run of cues and speeches.
MemBatches ==
  { <<>>,
    <<[line |-> <<"ali", "colon">>, classification |-> "character"]>>,
    <<[line |-> <<"allah", "colon">>, classification |-> "character"],
      [line |-> <<"med">>, classification |-> "dialogue"]>>,
    [k \in 1..LongBatchLen |->
       IF k % 2 = 1 THEN [line |-> <<"ali", "colon">>, classification |-> "character"]
       ELSE [line |-> <<"med">>, classification |-> "dialogue"]] }

\* The lines a classification consults the memory with: bare names, each the
\* first line of its batch.
LookupLines == { <<"ali">>, <<"allah">> }

\* The variables no step of the memory manager touches.
memFrame == <<pc, lines, idx, classifiedTypes, previousFormatClass, formattedHTML,
              memoryManager, sessionId, trace, spPrev, spCur, spOut>>

InitMemory ==
  /\ pc = "memory"
  /\ lines = <<>> /\ idx = 1 /\ classifiedTypes = <<>>
  /\ previousFormatClass = "action" /\ formattedHTML = <<>>
  /\ memoryManager = TRUE /\ sessionId = "s1" /\ storage = EmptyStore
  /\ trace = <<>>
  /\ spPrev = "action" /\ spCur = "action" /\ spOut = ""
  /\ NoConfirmations
  /\ editor = [content |-> <<>>, selection |-> "caret"]

\* The calls of updateMemory that have saved.
Saved(calls) == {c \in 1..Len(calls) : calls[c].state = "saved"}

\* updateMemory(sessionId, classifications) up to its first await: loadContext
\* has copied the stored record, or a fresh record is taken.
updateMemoryLoad ==
  /\ Len(updates) < MemMaxCalls
  /\ \E id \in SessionIds, classifications \in MemBatches :
       /\ updates' = Append(updates,
            [sessionId |-> id,
             classifications |-> classifications,
             timestamps |-> [k \in 1..Len(classifications) |-> clock + k],
             memory |-> MemoryOrDefault(loadContext(storage, id)),
             loadedAt |-> recordedAt[id],
             savesSeen |-> Cardinality(Saved(updates)),
             savedAs |-> 0,
             state |-> "loaded"])
       /\ clock' = clock + Len(classifications)
  /\ UNCHANGED <<storage, recordedAt, lookup, memFrame, confirmVars, rerun, editorVars, callVars>>

\* A serialised update: the record is loaded again at the moment of the save,
\* as if a lock were held from the load to the save.
updateMemorySaveSerialised ==
  \E c \in 1..Len(updates) :
    /\ updates[c].state = "loaded"
    /\ storage' = updateMemory(storage, updates[c].sessionId, updates[c].classifications)
    /\ recordedAt' = [recordedAt EXCEPT ![updates[c].sessionId] =
                        SliceFirst(updates[c].timestamps \o @, MAX_LAST_CLASSIFICATIONS)]
    /\ updates' = [updates EXCEPT ![c].state = "saved",
                                  ![c].savedAs = Cardinality(Saved(updates)) + 1]
    /\ UNCHANGED <<clock, lookup, memFrame, confirmVars, rerun, editorVars, callVars>>

\* updateMemory after the load: the record is brought up to date and saved.
updateMemorySave ==
  \E c \in 1..Len(updates) :
    /\ updates[c].state = "loaded"
    /\ storage' = saveContext(storage, updates[c].sessionId,
                              UpdatedMemory(updates[c].memory, updates[c].classifications))
    /\ recordedAt' = [recordedAt EXCEPT ![updates[c].sessionId] =
                        SliceFirst(updates[c].timestamps \o updates[c].loadedAt,
                                   MAX_LAST_CLASSIFICATIONS)]
    /\ updates' = [updates EXCEPT ![c].state = "saved",
                                  ![c].savedAs = Cardinality(Saved(updates)) + 1]
    /\ UNCHANGED <<clock, lookup, memFrame, confirmVars, rerun, editorVars, callVars>>

\* The store with the records of all sessions but one taken away.
OnlySession(store, id) ==
  [other \in SessionIds |-> IF other = id THEN store[other] ELSE NoMemory]

\* classifyWithContextAndMemory for one line of a batch under a session id.
classifyLookup ==
  /\ \E id \in SessionIds, l \in LookupLines :
       \E ctx \in {buildContext(<<l>>, 1, <<>>)} :
         lookup' = [sessionId |-> id,
                    line |-> l,
                    previousTypes |-> <<>>,
                    label |-> classifyWithContextAndMemory(l, ctx, TRUE, storage, id),
                    alone |-> classifyWithContextAndMemory(l, ctx, TRUE,
                                                           OnlySession(storage, id), id),
                    ruleLabel |-> classifyWithContext(l, ctx)]
  /\ UNCHANGED <<storage, updates, clock, recordedAt, memFrame, confirmVars, rerun, editorVars, callVars>>

NextMemory == updateMemoryLoad \/ updateMemorySave \/ classifyLookup

SpecMemory == InitMemory /\ [][NextMemory]_vars

\* ------------------------------------------------ scene headers with marks

\* Lines around a scene header whose first word carries a diacritic: the
\* matchers read the normalised line, splitSceneHeader the line as it is.  The
\* line of the one noun "house" is a place for the line after a header.
HeaderLexicon ==
  { <<"mashhadD", "n1", "dash", "dakhili", "layl">>,
    <<"mashhad", "n1", "dash", "dakhili", "layl">>,
    <<"mashhad", "n1">>,
    <<"bayt">>,
    <<"qat3">>,
    <<"ali", "colon">>,
    <<"med">> }

HeaderTexts == { [kind |-> "text", lines |-> batch] : batch \in SeqsUpTo(HeaderLexicon, MaxLines) }

NextHeader == StartPasteFrom(HeaderTexts) \/ ClassifyLine \/ FinishPaste

SpecHeader == Init /\ [][NextHeader]_vars

\* ------------------------------------------------------- lines with a bullet

\* Lines that start with a bullet glyph, with what is left of them after the
\* strip being a transition, a scene number, a name with a colon, a name and a
\* speech, and prose; and two lines without a bullet.
BulletLexicon ==
  { <<"bullet", "qat3">>,
    <<"bullet", "mashhad", "n1">>,
    <<"bullet", "ali", "colon">>,
    <<"bullet", "ali", "colon", "med">>,
    <<"bullet", "med">>,
    <<"ali", "colon">>,
    <<"med">> }

BulletTexts == { [kind |-> "text", lines |-> batch] : batch \in SeqsUpTo(BulletLexicon, MaxLines) }

NextBullet == StartPasteFrom(BulletTexts) \/ ClassifyLine \/ FinishPaste

SpecBullet == Init /\ [][NextBullet]_vars

\* ------------------------------------------ the classifier on a faulty memory

\* The label histories a line is classified under.
FaultHistories == { <<>>, <<"dialogue">>, <<"character", "dialogue">> }

\* The stores whose record for s1 has something wrong with it.
FaultyStores ==
  { [store EXCEPT !["s1"].faults = {fault}, !["s1"].present = TRUE] :
      store \in Stores, fault \in Faults }

InitFaults ==
  /\ pc = "faults"
  /\ lines = <<>> /\ idx = 1 /\ classifiedTypes = <<>>
  /\ previousFormatClass = "action" /\ formattedHTML = <<>>
  /\ memoryManager = TRUE /\ sessionId = "s1"
  /\ storage \in FaultyStores
  /\ trace = <<>>
  /\ spPrev = "action" /\ spCur = "action" /\ spOut = ""
  /\ NoConfirmations
  /\ editor = [content |-> <<>>, selection |-> "caret"]

\* classifyWithContextAndMemory for a line, the session's record being faulty.
classifyOnFaultyMemory ==
  /\ pc = "faults"
  /\ \E l \in Lexicon, previousTypes \in FaultHistories :
       \E ctx \in {buildContext(<<l>>, 1, previousTypes)} :
         lookup' = [sessionId |-> sessionId,
                    line |-> l,
                    previousTypes |-> previousTypes,
                    label |-> classifyWithContextAndMemory(l, ctx, memoryManager,
                                                           storage, sessionId),
                    alone |-> "",
                    ruleLabel |-> classifyWithContext(l, ctx)]
  /\ UNCHANGED <<storage, updates, clock, recordedAt, memFrame, confirmVars, rerun,
                 editorVars, callVars>>

NextFaults == classifyOnFaultyMemory

SpecFaults == InitFaults /\ [][NextFaults]_vars

\* ------------------------------------------------ a batch on a faulty memory

\* Lines that consult the memory (a bare name, a speech) and one that is split
\* inline.
FaultyPasteLexicon == { <<"ali">>, <<"med">>, <<"ali", "colon", "med">> }

FaultyPasteTexts ==
  { [kind |-> "text", lines |-> batch] : batch \in SeqsUpTo(FaultyPasteLexicon, MaxLines) }

InitFaultyPaste ==
  /\ pc = "idle"
  /\ lines = <<>> /\ idx = 1 /\ classifiedTypes = <<>>
  /\ previousFormatClass = "action" /\ formattedHTML = <<>>
  /\ memoryManager = TRUE /\ sessionId = "s1"
  /\ storage \in Stores \cup FaultyStores
  /\ trace = <<>>
  /\ spPrev = "action" /\ spCur = "action" /\ spOut = ""
  /\ NoConfirmations
  /\ editor \in EditorStates

NextFaultyPaste == StartPasteFrom(FaultyPasteTexts) \/ ClassifyLine \/ FinishPaste

\* Once handlePaste has been called, its loop and the code after it run to the
\* end: every await of the loop is answered by the memory manager.
SpecFaultyPaste ==
  /\ InitFaultyPaste /\ [][NextFaultyPaste]_vars
  /\ WF_vars(ClassifyLine) /\ WF_vars(FinishPaste)

\* ------------------------------------------------------- import of a text

MaxImports == 2

\* The sheets' bodies and the window's selection as an import may find them:
\* one or two bodies with blocks; no range at all (body 0, "none"), a range
\* outside the editor's container (body 0, "outside"), a caret at the end of
\* the last body, or a range over the content of the first body.
ImportEditorStates ==
  UNION { { [bodies |-> bodies, selection |-> selection] :
              selection \in { [body |-> 0, at |-> "none"], [body |-> 0, at |-> "outside"],
                              [body |-> Len(bodies), at |-> "end"],
                              [body |-> 1, at |-> "range"] } } :
          bodies \in { << <<"old">> >>, << <<"old">>, <<"old2">> >> } }

\* The texts handed to the importer: empty, and with LF or CRLF line breaks.
ImportTexts == { "", "a\nb", "a\r\nb" }

FileImportModes == { "replace", "insert" }

\* (text ?? "").replace(/\r\n/g, "\n")
NormalizeLineBreaks(text) == IF text = "a\r\nb" THEN "a\nb" ELSE text

\* clearDocumentForReplacePaste: every body is emptied and the selection
\* becomes a collapsed range at the start of the first body.
clearDocumentForReplacePaste(ed) ==
  IF Len(ed.bodies) = 0 THEN ed
  ELSE [bodies |-> [b \in 1..Len(ed.bodies) |-> <<>>],
        selection |-> [body |-> 1, at |-> "start"]]

RECURSIVE AllContentNodes(_, _)
\* getAllContentNodes: the children of the first n bodies, in order.
AllContentNodes(bodies, n) ==
  IF n = 0 THEN <<>> ELSE AllContentNodes(bodies, n - 1) \o bodies[n]

\* repaginate: returns at once when the bodies hold no node; otherwise every
\* body is emptied and the nodes are appended again from the first body on
\* (the few blocks here fit its height).  Emptying the bodies takes the nodes
\* of a range out of the document, which leaves the range collapsed in its body.
repaginate(ed) ==
  LET nodes == AllContentNodes(ed.bodies, Len(ed.bodies))
  IN  IF nodes = <<>> \/ Len(ed.bodies) = 0 THEN ed
      ELSE [bodies |-> [b \in 1..Len(ed.bodies) |-> IF b = 1 THEN nodes ELSE <<>>],
            selection |-> IF ed.selection.body > 0
                          THEN [body |-> ed.selection.body, at |-> "start"]
                          ELSE ed.selection]

\* focusEditorEnd: a collapsed range at the end of the last body.
focusEditorEnd(ed) ==
  IF Len(ed.bodies) = 0 THEN ed
  ELSE [ed EXCEPT !.selection = [body |-> Len(ed.bodies), at |-> "end"]]

\* ensureSelectionReadyForPaste: a range inside the container is kept.
ensureSelectionReadyForPaste(ed) ==
  IF ed.selection.body > 0 THEN ed ELSE focusEditorEnd(ed)

\* A faulty import, the code of pastePlainTextWithClassifier: the line breaks
\* are normalised, a text that is empty after trim is not pasted at all, and
\* the mode is not looked at.
importClassifiedTextAsPlainPaste(imp, text, mode) ==
  LET before == [bodies |-> imp.bodies, selection |-> imp.selection]
      normalized == NormalizeLineBreaks(text)
      ready == ensureSelectionReadyForPaste(before)
      request == [text |-> text, mode |-> mode, before |-> before]
  IN  IF normalized = ""
      THEN [imp EXCEPT !.requests = Append(@, request)]
      ELSE [bodies |-> ready.bodies, selection |-> ready.selection,
            requests |-> Append(imp.requests, request),
            handlePasteCalls |->
              Append(imp.handlePasteCalls,
                     [request |-> Len(imp.requests) + 1,
                      text |-> normalized, importSource |-> "clipboard",
                      bodies |-> ready.bodies, selection |-> ready.selection])]

\* importClassifiedText(text, mode) up to the await of the paste pipeline.
importClassifiedText(imp, text, mode) ==
  LET before == [bodies |-> imp.bodies, selection |-> imp.selection]
      ready == IF mode = "replace"
               THEN repaginate(clearDocumentForReplacePaste(before))
               ELSE ensureSelectionReadyForPaste(before)
  IN  [bodies |-> ready.bodies, selection |-> ready.selection,
       requests |-> Append(imp.requests, [text |-> text, mode |-> mode, before |-> before]),
       handlePasteCalls |->
         Append(imp.handlePasteCalls,
                [request |-> Len(imp.requests) + 1,
                 text |-> text, importSource |-> "clipboard",
                 bodies |-> ready.bodies, selection |-> ready.selection])]

\* The variables no step of the importer touches.
importFrame == <<pasteVars, spPrev, spCur, spOut, confirmVars, memVars, rerun, editorVars,
                 resolverCalls, extraction, commandHistory>>

ImportText ==
  /\ Len(importer.requests) < MaxImports
  /\ \E text \in ImportTexts, mode \in FileImportModes :
       importer' = importClassifiedText(importer, text, mode)
  /\ UNCHANGED importFrame

\* The user types, deletes or clicks in the contentEditable bodies.
UserEdits ==
  /\ \E ed \in ImportEditorStates :
       /\ ed # [bodies |-> importer.bodies, selection |-> importer.selection]
       /\ importer' = [importer EXCEPT !.bodies = ed.bodies, !.selection = ed.selection]
  /\ UNCHANGED importFrame

InitImport ==
  /\ pc = "import"
  /\ lines = <<>> /\ idx = 1 /\ classifiedTypes = <<>>
  /\ previousFormatClass = "action" /\ formattedHTML = <<>>
  /\ memoryManager = TRUE /\ sessionId = "s1" /\ storage = EmptyStore
  /\ trace = <<>>
  /\ spPrev = "action" /\ spCur = "action" /\ spOut = ""
  /\ NoConfirmations
  /\ editor = [content |-> <<>>, selection |-> "caret"]

NextImport == ImportText \/ UserEdits

SpecImport == InitImport /\ [][NextImport]_vars

\* ------------------------------------------------ text extraction from files

MIN_TEXT_DENSITY == 20

\* What an extractor run from outside gives: a text with something in it, a
\* text that is empty after trim, or an exception.
ExtractorOutcomes == {"text", "blank", "throws"}

\* The attempts of the .doc ladder, by short names for the strings pushed to
\* attempts: antiword through WSL, antiword at the custom path, Word COM direct
\* text, Word COM to PDF to OCR, direct OCR.
DocLadder == <<"antiword-wsl", "antiword-custom", "word-com-text", "word-com-pdf-ocr",
               "ocr-direct">>

\* What extractTextFromDoc may meet: whether the temporary copy of the file
\* could be written, the outcome of each command, whether the conversion script
\* left a PDF, the outcomes of the two OCR calls, and isMistralConfigured().
DocEnvs ==
  [tempFile : BOOLEAN,
   wsl : ExtractorOutcomes, custom : ExtractorOutcomes, wordCom : ExtractorOutcomes,
   convert : {"pdf", "nopdf", "throws"}, convertedOcr : ExtractorOutcomes,
   directOcr : ExtractorOutcomes, configured : BOOLEAN]

\* What extractTextFromPdf may meet: pdf-parse throws, or gives a text that has
\* length characters after trim; the outcome of the OCR call; isMistralConfigured().
PdfEnvs ==
  [parse : {"text", "throws"},
   length : {0, MIN_TEXT_DENSITY - 1, MIN_TEXT_DENSITY, MIN_TEXT_DENSITY + 1},
   ocr : ExtractorOutcomes, configured : BOOLEAN]

DocxEnvs == [mammoth : ExtractorOutcomes]

TxtEnvs == {[buffer |-> "text"], [buffer |-> "blank"]}

\* A returned result and a thrown error.  text names where the text came from,
\* blank says that it is empty after trim; ocrCalls counts the calls of
\* extractTextWithMistralOcr.
Returned(text, blank, method, usedOcr, attempts, ocrCalls) ==
  [threw |-> FALSE, text |-> text, blank |-> blank, method |-> method,
   usedOcr |-> usedOcr, attempts |-> attempts, ocrCalls |-> ocrCalls]

Thrown(attempts, ocrCalls) ==
  [threw |-> TRUE, text |-> "", blank |-> TRUE, method |-> "", usedOcr |-> FALSE,
   attempts |-> attempts, ocrCalls |-> ocrCalls]

\* A faulty ladder: direct OCR is tried whether or not OCR is configured.
extractTextFromDocAlwaysOcr(env) ==
  LET a3 == SubSeq(DocLadder, 1, 3)
      a4 == IF env.configured THEN Append(a3, DocLadder[4]) ELSE a3
      a5 == Append(a4, DocLadder[5])
      converted == env.configured /\ env.convert = "pdf"
  IN  IF ~env.tempFile THEN Thrown(<<>>, 0)
      ELSE IF env.wsl = "text"
      THEN Returned("wsl", FALSE, "antiword", FALSE, SubSeq(DocLadder, 1, 1), 0)
      ELSE IF env.custom = "text"
      THEN Returned("custom", FALSE, "antiword", FALSE, SubSeq(DocLadder, 1, 2), 0)
      ELSE IF env.wordCom = "text"
      THEN Returned("wordCom", FALSE, "word-com", FALSE, a3, 0)
      ELSE IF converted /\ env.convertedOcr # "throws"
      THEN Returned("convertedOcr", env.convertedOcr = "blank", "ocr-mistral", TRUE, a4, 1)
      ELSE IF env.directOcr = "text"
      THEN Returned("directOcr", FALSE, "ocr-mistral", TRUE, a5,
                    IF converted THEN 2 ELSE 1)
      ELSE Thrown(a5, IF converted THEN 2 ELSE 1)

\* extractTextFromDoc: the file is copied to a temporary directory, outside
\* the try; then the attempts one after the other; the first that gives a text
\* returns.  An antiword or Word COM text that is empty after trim is a
\* failure, and so is an empty text of the direct OCR; the OCR of the converted
\* PDF returns whatever text it gets.
extractTextFromDoc(env) ==
  LET a3 == SubSeq(DocLadder, 1, 3)
      a4 == IF env.configured THEN Append(a3, DocLadder[4]) ELSE a3
      a5 == IF env.configured THEN Append(a4, DocLadder[5]) ELSE a4
      converted == env.configured /\ env.convert = "pdf"
  IN  IF ~env.tempFile THEN Thrown(<<>>, 0)
      ELSE IF env.wsl = "text"
      THEN Returned("wsl", FALSE, "antiword", FALSE, SubSeq(DocLadder, 1, 1), 0)
      ELSE IF env.custom = "text"
      THEN Returned("custom", FALSE, "antiword", FALSE, SubSeq(DocLadder, 1, 2), 0)
      ELSE IF env.wordCom = "text"
      THEN Returned("wordCom", FALSE, "word-com", FALSE, a3, 0)
      ELSE IF converted /\ env.convertedOcr # "throws"
      THEN Returned("convertedOcr", env.convertedOcr = "blank", "ocr-mistral", TRUE, a4, 1)
      ELSE IF env.configured /\ env.directOcr = "text"
      THEN Returned("directOcr", FALSE, "ocr-mistral", TRUE, a5,
                    IF converted THEN 2 ELSE 1)
      ELSE Thrown(a5, IF ~env.configured THEN 0 ELSE IF converted THEN 2 ELSE 1)

\* A faulty fallback: a weak local text is returned when OCR is not configured.
extractTextFromPdfKeepsWeakText(env) ==
  IF env.parse # "throws" /\ (env.length >= MIN_TEXT_DENSITY \/ ~env.configured)
  THEN Returned("local", env.length = 0, "native-text", FALSE, <<>>, 0)
  ELSE IF env.configured /\ env.ocr # "throws"
  THEN Returned("ocr", env.ocr = "blank", "ocr-mistral", TRUE, <<>>, 1)
  ELSE Thrown(<<>>, IF env.configured THEN 1 ELSE 0)

\* extractTextFromPdf: the local parser first; OCR when its text is short or it
\* throws and OCR is configured; an error when nothing gave a text.
extractTextFromPdf(env) ==
  IF env.parse # "throws" /\ env.length >= MIN_TEXT_DENSITY
  THEN Returned("local", FALSE, "native-text", FALSE, <<>>, 0)
  ELSE IF env.configured /\ env.ocr # "throws"
  THEN Returned("ocr", env.ocr = "blank", "ocr-mistral", TRUE, <<>>, 1)
  ELSE Thrown(<<>>, IF env.configured THEN 1 ELSE 0)

\* extractFileText(buffer, filename, fileType): the result of the extractor of
\* the file type, its text passed through normalizeExtractedText (text names
\* the extractor the text came from, never the characters); an error of the
\* extractor leaves extractFileText as it is.
extractFileText(env, fileType) ==
  CASE fileType = "txt" ->
         Returned("buffer", env.buffer = "blank", "native-text", FALSE, <<"native-text">>, 0)
    [] fileType = "docx" ->
         IF env.mammoth = "throws" THEN Thrown(<<>>, 0)
         ELSE Returned("mammoth", env.mammoth = "blank", "mammoth", FALSE, <<"mammoth">>, 0)
    [] fileType = "pdf" ->
         LET pdfResult == extractTextFromPdf(env)
         IN  IF pdfResult.threw THEN pdfResult
             ELSE [pdfResult EXCEPT !.attempts =
                     IF pdfResult.usedOcr THEN <<"local-parser", "ocr-mistral">>
                     ELSE <<"local-parser">>]
    [] fileType = "doc" -> extractTextFromDoc(env)

ImportedFileTypes == {"txt", "docx", "pdf", "doc"}

EnvsOf(fileType) ==
  CASE fileType = "txt" -> TxtEnvs
    [] fileType = "docx" -> DocxEnvs
    [] fileType = "pdf" -> PdfEnvs
    [] fileType = "doc" -> DocEnvs

NotExtracted == [none |-> TRUE]

\* One call of extractFileText, from the file to the result or the error.
ExtractFile ==
  /\ extraction.fileType # ""
  /\ extraction.result = NotExtracted
  /\ extraction' = [extraction EXCEPT
                      !.result = extractFileText(extraction.env, extraction.fileType)]
  /\ UNCHANGED <<pasteVars, spPrev, spCur, spOut, confirmVars, memVars, rerun, editorVars,
                 importer, resolverCalls, commandHistory>>

InitExtract ==
  /\ pc = "extract"
  /\ lines = <<>> /\ idx = 1 /\ classifiedTypes = <<>>
  /\ previousFormatClass = "action" /\ formattedHTML = <<>>
  /\ memoryManager = TRUE /\ sessionId = "s1" /\ storage = EmptyStore
  /\ trace = <<>>
  /\ spPrev = "action" /\ spCur = "action" /\ spOut = ""
  /\ pasteBatchId = 0 /\ pendingRegistry = <<>> /\ pendingConfirmations = <<>>
  /\ notifierCalls = <<>> /\ pendingRuns = <<>>
  /\ confirmationState = ClosedConfirmation
  /\ document = <<>> /\ updates = <<>> /\ clock = 0
  /\ recordedAt = [id \in SessionIds |-> <<>>]
  /\ lookup = NoLookup /\ rerun = NotRerun /\ pasteEvent = NoPasteEvent
  /\ importer = NoImports /\ resolverCalls = <<>> /\ commandHistory = NoCommands
  /\ \E fileType \in ImportedFileTypes :
       \E env \in EnvsOf(fileType) :
         extraction = [fileType |-> fileType, env |-> env, result |-> NotExtracted]
  /\ editor = [content |-> <<>>, selection |-> "caret"]

NextExtract == ExtractFile

SpecExtract == InitExtract /\ [][NextExtract]_vars

\* ------------------------------------------------- the command history

MAX_COMMAND_HISTORY_ENTRIES == 100

MaxUndos == 2
MaxCommandsInFlight == 1

\* What htmlByBody.join("||") of a snapshot may be.
HtmlContents == {"h1", "h2"}

\* A step on the history, for the properties: the operation, the snapshots a
\* commit was given, and the lengths of the two stacks before the step.
HistoryStep(op, before, after, history) ==
  [op |-> op, before |-> before, after |-> after,
   undoBefore |-> Len(history.undo), redoBefore |-> Len(history.redo)]

\* A faulty commit: the undo stack is never shortened.
commitCommandEntryNoLimit(history, before, after) ==
  IF before = after \/ history.applying
  THEN [history EXCEPT !.last = HistoryStep("commit-none", before, after, history)]
  ELSE [history EXCEPT
          !.undo = Append(history.undo, [before |-> before, after |-> after, stale |-> FALSE]),
          !.redo = <<>>,
          !.last = HistoryStep("commit", before, after, history)]

\* A faulty commit: the redo stack is left as it is.
commitCommandEntryKeepsRedo(history, before, after) ==
  IF before = after \/ history.applying
  THEN [history EXCEPT !.last = HistoryStep("commit-none", before, after, history)]
  ELSE LET pushed == Append(history.undo,
                            [before |-> before, after |-> after, stale |-> FALSE])
       IN  [history EXCEPT
              !.undo = IF Len(pushed) > MAX_COMMAND_HISTORY_ENTRIES THEN Tail(pushed)
                       ELSE pushed,
              !.last = HistoryStep("commit", before, after, history)]

\* commitCommandEntry(before, after), for snapshots of a mounted editor: nothing
\* for equal contents and nothing while an undo or redo is applied; otherwise
\* the entry is pushed, the oldest entry is shifted out of a stack that has
\* become too long, and the redo stack is emptied.
commitCommandEntry(history, before, after) ==
  IF before = after \/ history.applying
  THEN [history EXCEPT !.last = HistoryStep("commit-none", before, after, history)]
  ELSE LET pushed == Append(history.undo,
                            [before |-> before, after |-> after, stale |-> FALSE])
       IN  [history EXCEPT
              !.undo = IF Len(pushed) > MAX_COMMAND_HISTORY_ENTRIES THEN Tail(pushed)
                       ELSE pushed,
              !.redo = <<>>,
              !.last = HistoryStep("commit", before, after, history)]

\* The entries a commit leaves on the redo stack were undone before it.
MarkStale(entries) == [k \in 1..Len(entries) |-> [entries[k] EXCEPT !.stale = TRUE]]

historyFrame == <<pasteVars, spPrev, spCur, spOut, confirmVars, memVars, rerun, editorVars,
                  importer, resolverCalls, extraction>>

\* executeCommandWithHistory up to its await: the before snapshot is taken.
executeCommandWithHistoryBegin ==
  /\ Len(commandHistory.inFlight) < MaxCommandsInFlight
  /\ commandHistory' =
       [commandHistory EXCEPT
          !.inFlight = Append(commandHistory.inFlight, commandHistory.html),
          !.last = HistoryStep("begin", commandHistory.html, commandHistory.html,
                               commandHistory)]
  /\ UNCHANGED historyFrame

\* executeCommandWithHistory from the end of its operation: the operation has
\* left some content in the bodies, the after snapshot is taken and the two
\* snapshots are committed.
executeCommandWithHistoryEnd ==
  /\ \E i \in 1..Len(commandHistory.inFlight), html \in HtmlContents :
       \E committed \in {commitCommandEntry(commandHistory,
                                            commandHistory.inFlight[i], html)} :
         commandHistory' =
           [committed EXCEPT
              !.html = html,
              !.redo = IF committed.last.op = "commit" THEN MarkStale(committed.redo)
                       ELSE committed.redo,
              !.inFlight = SubSeq(commandHistory.inFlight, 1, i - 1) \o
                           SubSeq(commandHistory.inFlight, i + 1,
                                  Len(commandHistory.inFlight))]
  /\ UNCHANGED historyFrame

\* undoCommandOperation: the newest entry goes from the undo stack to the redo
\* stack and its before snapshot is put into the bodies; applying is set while
\* applyCommandSnapshot runs, which is synchronous.
undoCommandOperation ==
  /\ commandHistory.undos < MaxUndos
  /\ commandHistory.undo # <<>>
  /\ commandHistory' =
       [commandHistory EXCEPT
          !.undo = Front(commandHistory.undo),
          !.redo = Append(commandHistory.redo, Last(commandHistory.undo)),
          !.applying = FALSE,
          !.html = Last(commandHistory.undo).before,
          !.undos = commandHistory.undos + 1,
          !.last = HistoryStep("undo", Last(commandHistory.undo).before,
                               Last(commandHistory.undo).after, commandHistory)]
  /\ UNCHANGED historyFrame

\* redoCommandOperation: the newest entry of the redo stack goes back to the
\* undo stack and its after snapshot is put into the bodies.
redoCommandOperation ==
  /\ commandHistory.redo # <<>>
  /\ commandHistory' =
       [commandHistory EXCEPT
          !.redo = Front(commandHistory.redo),
          !.undo = Append(commandHistory.undo, Last(commandHistory.redo)),
          !.applying = FALSE,
          !.html = Last(commandHistory.redo).after,
          !.last = HistoryStep("redo", Last(commandHistory.redo).before,
                               Last(commandHistory.redo).after, commandHistory)]
  /\ UNCHANGED historyFrame

InitHistory ==
  /\ pc = "history"
  /\ lines = <<>> /\ idx = 1 /\ classifiedTypes = <<>>
  /\ previousFormatClass = "action" /\ formattedHTML = <<>>
  /\ memoryManager = TRUE /\ sessionId = "s1" /\ storage = EmptyStore
  /\ trace = <<>>
  /\ spPrev = "action" /\ spCur = "action" /\ spOut = ""
  /\ NoConfirmations
  /\ editor = [content |-> <<>>, selection |-> "caret"]

NextHistory ==
  \/ executeCommandWithHistoryBegin
  \/ executeCommandWithHistoryEnd
  \/ undoCommandOperation
  \/ redoCommandOperation

SpecHistory == InitHistory /\ [][NextHistory]_vars

\* =============================================================== properties

\* C1: in the output of a paste batch, whenever a character block is immediately
\* followed by a dialogue or parenthetical block, the margin computed for the
\* following block is zero ("0", neither the paragraph gap nor unset), for
\* blocks of ordinary classification and of the inline NAME: TEXT split alike.
CharacterThenSpeechSpacingZero ==
  \A k \in 1..(Len(formattedHTML) - 1) :
    (/\ formattedHTML[k].label = "character"
     /\ formattedHTML[k + 1].label \in {"dialogue", "parenthetical"})
      => formattedHTML[k + 1].marginTop = "0"

\* A finished batch holding a character block followed by a parenthetical block,
\* and an inline split whose dialogue block follows its character block.
CharacterThenSpeechReached ==
  /\ pc = "done"
  /\ \E k \in 1..(Len(formattedHTML) - 1) :
       /\ formattedHTML[k].label = "character"
       /\ formattedHTML[k + 1].label = "parenthetical"
       /\ formattedHTML[k + 1].marginTop = "0"
  /\ \E j \in 1..Len(trace) :
       /\ trace[j].inline
       /\ formattedHTML[trace[j].at].label = "character"
       /\ formattedHTML[trace[j].at + 1].label = "dialogue"

\* C2: after any sequence of lines of a batch, with or without session memory,
\* every label appended to the label history and the label of every emitted
\* block is one of the ten labels of the closed set.
LabelsInClosedSet ==
  /\ \A k \in 1..Len(classifiedTypes) : classifiedTypes[k] \in Labels
  /\ \A k \in 1..Len(formattedHTML) : formattedHTML[k].label \in Labels

\* A finished batch of three lines, classified with a recorded session memory
\* that changed the rule-based label of one of its lines.
MemoryAdjustedBatchReached ==
  /\ pc = "done"
  /\ memoryManager
  /\ loadContext(storage, sessionId).present
  /\ Len(trace) = 3
  /\ \E k \in 1..Len(trace) :
       ~trace[k].inline /\ trace[k].labels # <<trace[k].ruleLabel>>

\* C3: within one batch, the label history handed to the classification of a
\* line is exactly the labels already finalized for the lines before it, in line
\* order (two labels for an inline split), and holds no label of that line or of
\* a later one: it is empty for the first line, and each line's history is the
\* previous line's history followed by the labels the previous line was emitted
\* under.
HistoryIsFinalizedPrefix ==
  /\ Len(trace) > 0 => trace[1].previousTypes = <<>>
  /\ \A k \in 1..(Len(trace) - 1) :
       trace[k + 1].previousTypes = trace[k].previousTypes \o trace[k].labels
  /\ \A k \in 1..Len(trace) :
       LET e == trace[k]
       IN  /\ e.line = stripLeadingBullets(lines[k])
           /\ IF e.inline
              THEN e.labels = <<formattedHTML[e.at].label, formattedHTML[e.at + 1].label>>
              ELSE e.labels \in {<<formattedHTML[e.at].label>>,
                                 <<formattedHTML[e.at].parent>>}

\* A finished batch whose third line was classified under a history of four
\* labels: the two lines before it were both inline splits.
HistoryOfSplitLinesReached ==
  /\ pc = "done"
  /\ Len(trace) = 3
  /\ trace[1].inline /\ trace[2].inline
  /\ trace[3].previousTypes = <<"character", "dialogue", "character", "dialogue">>

\* C4: every line that satisfies the basmala test is finalized with the label
\* basmala, whatever its position in the batch, the label history before it and
\* the session memory.
BasmalaLineFinalizedBasmala ==
  \A k \in 1..Len(trace) :
    isBasmala(trace[k].line) =>
      /\ trace[k].labels = <<"basmala">>
      /\ formattedHTML[trace[k].at].label = "basmala"

\* C5: every line NAME: TEXT (NAME the text before the first colon, TEXT the
\* non-empty text after it) whose NAME followed by a colon has the character
\* shape is emitted as exactly two consecutive blocks, character(NAME) then
\* dialogue(TEXT), with margin zero before the dialogue block, and the labels
\* character, dialogue are appended to the label history in that order.
InlineLineSplitInTwo ==
  \A k \in 1..Len(trace) :
    LET l == trace[k].line
        c == CHOOSE x \in 1..Len(l) : l[x] = "colon" /\ \A y \in 1..(x - 1) : l[y] # "colon"
        NAME == SubSeq(l, 1, c - 1)
        TEXT == SubSeq(l, c + 1, Len(l))
        at == trace[k].at
        history == IF k < Len(trace) THEN trace[k + 1].previousTypes ELSE classifiedTypes
        end == IF k < Len(trace) THEN trace[k + 1].at ELSE Len(formattedHTML) + 1
    IN  (/\ lineHasColon(l)
         /\ Len(TEXT) > 0
         /\ CHARACTER_RE(Append(NAME, "colon")))
          => /\ end = at + 2
             /\ formattedHTML[at].label = "character"
             /\ formattedHTML[at].text = NAME
             /\ formattedHTML[at + 1].label = "dialogue"
             /\ formattedHTML[at + 1].text = TEXT
             /\ formattedHTML[at + 1].marginTop = "0"
             /\ history = trace[k].previousTypes \o <<"character", "dialogue">>

\* A finished batch whose second line is a NAME: TEXT line that was split, its
\* character block following the block of the first line.
InlineLineSplitReached ==
  /\ pc = "done"
  /\ Len(trace) = 2
  /\ ~trace[1].inline
  /\ trace[2].inline
  /\ trace[2].at = 2
  /\ formattedHTML[3].marginTop = "0"
  /\ Len(formattedHTML) = 3

\* C6: every line that satisfies the complete-scene-header matcher is emitted as
\* two sibling blocks, scene-header-1 holding the number segment and
\* scene-header-2 holding the description segment, under one
\* scene-header-top-line wrapper, and under no other label.
CompleteSceneHeaderSplitUnderTopLine ==
  \A k \in 1..Len(trace) :
    LET l == trace[k].line
        at == trace[k].at
        parts == splitSceneHeader(l)
    IN  isCompleteSceneHeader(l) =>
          /\ trace[k].labels = <<"scene-header-top-line">>
          /\ formattedHTML[at].label = "scene-header-1"
          /\ formattedHTML[at].text = parts.number
          /\ formattedHTML[at].parent = "scene-header-top-line"
          /\ formattedHTML[at + 1].label = "scene-header-2"
          /\ formattedHTML[at + 1].text = parts.description
          /\ formattedHTML[at + 1].parent = "scene-header-top-line"

\* C7: the rule-based classifier returns the label of the first matching check in
\* the order basmala, complete scene header, scene-header-1, scene-header-2,
\* transition, parenthetical (only inside a dialogue block), action-verb start or
\* action opener: a line matching several of the checks gets the label of the
\* earliest one.
FirstMatchingCheckWins ==
  \A k \in 1..Len(trace) :
    LET l == trace[k].line
        n == normalizeLine(l)
        matches == << isBasmala(l),
                      isCompleteSceneHeader(l),
                      isSceneHeader1(l),
                      isSceneHeader2(l),
                      isTransition(l),
                      isParenthetical(l) /\ trace[k].isInDialogueBlock,
                      isActionVerbStart(n) \/ matchesActionStartPattern(n) >>
        labelOf == << "basmala", "scene-header-top-line", "scene-header-1",
                      "scene-header-2", "transition", "parenthetical", "action" >>
    IN  \A i \in 1..7 :
          (matches[i] /\ \A j \in 1..(i - 1) : ~matches[j])
            => trace[k].ruleLabel = labelOf[i]

\* A finished batch with a line that is both a scene-header-2 and a transition
\* and got scene-header-2, and a line inside a dialogue block that is both a
\* parenthetical and an action-verb start and got parenthetical.
SeveralChecksMatchReached ==
  /\ pc = "done"
  /\ \E k \in 1..Len(trace) :
       /\ isSceneHeader2(trace[k].line) /\ isTransition(trace[k].line)
       /\ ~isSceneHeader1(trace[k].line)
       /\ trace[k].ruleLabel = "scene-header-2"
  /\ \E k \in 1..Len(trace) :
       /\ isParenthetical(trace[k].line) /\ trace[k].isInDialogueBlock
       /\ isActionVerbStart(normalizeLine(trace[k].line))
       /\ trace[k].ruleLabel = "parenthetical"

\* C8: for every pair of labels the spacing rule engine returns the paragraph
\* gap exactly for the pairs the table lists as gap, zero for basmala followed by
\* anything, character followed by dialogue or parenthetical, and parenthetical
\* followed by dialogue, and no explicit margin for every other pair.
SpacingTableExact ==
  spOut # "unasked" =>
    LET zero == \/ spPrev = "basmala"
                \/ spPrev = "character" /\ spCur \in {"dialogue", "parenthetical"}
                \/ spPrev = "parenthetical" /\ spCur = "dialogue"
        gap == \/ spPrev = "scene-header-2" /\ spCur = "scene-header-3"
               \/ spPrev = "scene-header-3" /\ spCur = "action"
               \/ spPrev = "action" /\ spCur \in {"action", "character", "transition"}
               \/ spPrev = "dialogue" /\ spCur \in {"character", "action", "transition"}
               \/ spPrev = "parenthetical" /\ spCur \in {"character", "action", "transition"}
               \/ spPrev = "transition" /\ spCur \in {"scene-header-1", "scene-header-top-line"}
    IN  /\ zero => spOut = "0"
        /\ (~zero /\ gap) => spOut = "14pt"
        /\ (~zero /\ ~gap) => spOut = ""

\* The engine was asked for a transition followed by the scene-header-top-line
\* wrapper and answered with the paragraph gap.
SpacingGapAnswered ==
  /\ spPrev = "transition"
  /\ spCur = "scene-header-top-line"
  /\ spOut = "14pt"

\* A line of the lower confidence tier is in the output under its suggested
\* label from the step that classified it on, with a PendingConfirmation
\* registered for it under the batch id; while the batch runs none of its
\* confirmations is resolved or asked for.
ProvisionalLabelEmitted ==
  /\ \A k \in 1..Len(trace) :
       (~trace[k].inline /\ trace[k].rule.step \in {10, 11}) =>
         /\ formattedHTML[trace[k].at].label = trace[k].rule.label
         /\ classifiedTypes[Len(trace[k].previousTypes) + 1] = trace[k].rule.label
         /\ \E e \in PendingOf(pendingRegistry, pasteBatchId) :
              /\ pendingRegistry[e].at = trace[k].at
              /\ pendingRegistry[e].line = trace[k].line
              /\ pendingRegistry[e].suggestedType = trace[k].rule.label
  /\ pc = "loop" =>
       /\ Unresolved(pendingRegistry, pasteBatchId) = PendingOf(pendingRegistry, pasteBatchId)
       /\ \A r \in 1..Len(pendingRuns) :
            \A i \in 1..Len(pendingRuns[r].batches) :
              pendingRuns[r].batches[i] # pasteBatchId

\* C9: a line whose confidence is below the accept threshold is emitted at once
\* under its suggested label and a PendingConfirmation is registered for it
\* under the batch id; a batch that has started always runs to completion, with
\* every confirmation it registered still unresolved when it completes.
BatchCompletesWithoutConfirmation ==
  /\ []ProvisionalLabelEmitted
  /\ (pc = "loop") ~>
       (/\ pc = "done"
        /\ Unresolved(pendingRegistry, pasteBatchId) = PendingOf(pendingRegistry, pasteBatchId))

\* The second batch is complete with two confirmations pending, none resolved,
\* while the dialog opened for a line of the first batch is still unanswered.
CompleteWithPendingReached ==
  /\ pc = "done"
  /\ pasteBatchId = 2
  /\ Cardinality(Unresolved(pendingRegistry, 2)) = 2
  /\ confirmationState.open
  /\ pendingRegistry[confirmationState.entry].pasteBatchId = 1

\* C10: for each batch that leaves at least one pending confirmation the
\* notifier is called exactly once, when the batch completes, with the batch id
\* and the number of confirmations the batch left pending (not once per
\* low-confidence line); it is not called for a batch that leaves none.
NotifierOncePerBatch ==
  \A b \in 1..MaxBatches :
    LET calls == {k \in 1..Len(notifierCalls) : notifierCalls[k].pasteBatchId = b}
        pendingCount == Cardinality(PendingOf(pendingRegistry, b))
        completed == b < pasteBatchId \/ (b = pasteBatchId /\ pc = "done")
    IN  IF completed /\ pendingCount > 0
        THEN /\ Cardinality(calls) = 1
             /\ \A k \in calls : notifierCalls[k].count = pendingCount
        ELSE calls = {}

\* Two batches are complete, the first with no pending confirmation and the
\* second with two: the notifier was called once, with the count 2, and the
\* editor lists that batch.
NotifiedOnceForTwoReached ==
  /\ pc = "done"
  /\ pasteBatchId = 2
  /\ PendingOf(pendingRegistry, 1) = {}
  /\ Cardinality(PendingOf(pendingRegistry, 2)) = 2
  /\ notifierCalls = <<[pasteBatchId |-> 2, count |-> 2]>>
  /\ pendingConfirmations = <<[pasteBatchId |-> 2, count |-> 2]>>

\* C11: each pending confirmation is resolved exactly once, by the label the
\* user chose or by the suggested label, under every interleaving of requests
\* and answers: a confirmation that was requested and is not resolved yet is the
\* one the dialog holds the resolve of, so that the user's answer resolves it,
\* and a resolved confirmation was requested and carries a label of the dialog.
ConfirmationResolvedExactlyOnce ==
  \A k \in 1..Len(pendingRegistry) :
    /\ (pendingRegistry[k].requested /\ ~pendingRegistry[k].resolved) =>
         (confirmationState.open /\ confirmationState.entry = k)
    /\ pendingRegistry[k].resolved =>
         /\ pendingRegistry[k].requested
         /\ pendingRegistry[k].finalType \in
              ConfirmChoices \cup {pendingRegistry[k].suggestedType}

\* C12: a step that resolves a pending confirmation, with the suggested label or
\* with a different one, gives the final label to the block of that
\* confirmation and changes nothing else: every other block of the batch and of
\* the other batches keeps its label, and every other pending confirmation, of
\* this batch and of the others, is as it was.
ResolveChangesOnlyItsBlock ==
  [][\A k \in 1..Len(pendingRegistry) :
       (~pendingRegistry[k].resolved /\ pendingRegistry'[k].resolved) =>
         /\ Len(document') = Len(document)
         /\ \A j \in 1..Len(document) :
              IF /\ document[j].pasteBatchId = pendingRegistry[k].pasteBatchId
                 /\ document[j].at = pendingRegistry[k].at
              THEN document'[j] =
                     [document[j] EXCEPT !.label = pendingRegistry'[k].finalType]
              ELSE document'[j] = document[j]
         /\ Len(pendingRegistry') = Len(pendingRegistry)
         /\ \A e \in 1..Len(pendingRegistry) :
              e # k => pendingRegistry'[e] = pendingRegistry[e]
         /\ pendingConfirmations' = pendingConfirmations]_vars

\* The first batch has two blocks, one of them pending; its confirmation was
\* answered with a label other than the suggested one and its block carries
\* that label, the other block of the batch is still a dialogue block, and a
\* confirmation of the second batch is still pending.
ResolvedWithOtherLabelReached ==
  /\ pasteBatchId = 2
  /\ pc = "done"
  /\ \E k \in PendingOf(pendingRegistry, 1) :
       /\ pendingRegistry[k].resolved
       /\ pendingRegistry[k].suggestedType = "character"
       /\ pendingRegistry[k].finalType = "action"
       /\ \E j \in 1..Len(document) :
            /\ document[j].pasteBatchId = 1
            /\ document[j].at = pendingRegistry[k].at
            /\ document[j].label = "action"
       /\ \E j \in 1..Len(document) :
            /\ document[j].pasteBatchId = 1
            /\ document[j].at # pendingRegistry[k].at
            /\ document[j].label = "dialogue"
  /\ Unresolved(pendingRegistry, 2) # {}

\* The blocks of a batch in the editor, in order.
BlocksOf(doc, batchId) == SelectSeq(doc, LAMBDA b : b.pasteBatchId = batchId)

\* C13: when the confirmation callback throws or rejects for a pending line, the
\* step alters and removes no block and resolves nothing, and from then on the
\* confirmation stays unresolved and its block carries the suggested label.
RejectedKeepsSuggestedLabel ==
  /\ [](\A k \in 1..Len(pendingRegistry) :
          pendingRegistry[k].rejected =>
            /\ ~pendingRegistry[k].resolved
            /\ pendingRegistry[k].finalType = pendingRegistry[k].suggestedType
            /\ \E j \in 1..Len(document) :
                 /\ document[j].pasteBatchId = pendingRegistry[k].pasteBatchId
                 /\ document[j].at = pendingRegistry[k].at
                 /\ document[j].label = pendingRegistry[k].suggestedType)
  /\ [][\A k \in 1..Len(pendingRegistry) :
          (~pendingRegistry[k].rejected /\ pendingRegistry'[k].rejected) =>
            /\ document' = document
            /\ \A e \in 1..Len(pendingRegistry) :
                 pendingRegistry'[e].resolved = pendingRegistry[e].resolved]_vars

\* The callback was rejected for the first pending line of a batch of two
\* pending lines and the second one was then answered by the user: the batch
\* still has its two blocks, the first under its suggested label.
RejectedThenAnsweredReached ==
  \E k, m \in PendingOf(pendingRegistry, 1) :
    /\ k < m
    /\ pendingRegistry[k].rejected
    /\ pendingRegistry[m].resolved
    /\ Len(BlocksOf(document, 1)) = 2
    /\ BlocksOf(document, 1)[1].label = pendingRegistry[k].suggestedType

\* C14: after any number of memory updates of any sizes for a session, the
\* stored lastClassifications list has at most 20 entries.
LastClassificationsAtMostTwenty ==
  \A id \in SessionIds :
    Len(storage[id].lastClassifications) <= MAX_LAST_CLASSIFICATIONS

\* An update was saved whose labels, put in front of the labels it had loaded,
\* made more than 20: the stored list holds exactly 20.
ListCutAtTwentyReached ==
  \E c \in 1..Len(updates) :
    /\ updates[c].state = "saved"
    /\ Len(updates[c].classifications) + Len(updates[c].memory.lastClassifications)
         > MAX_LAST_CLASSIFICATIONS
    /\ Len(storage[updates[c].sessionId].lastClassifications) = MAX_LAST_CLASSIFICATIONS

\* C15: after any number of memory updates lastClassifications is ordered
\* newest-first: of any two recorded labels, the one classified later, in a
\* later batch or later within the same batch, is at the smaller index.
LastClassificationsNewestFirst ==
  \A id \in SessionIds :
    /\ Len(recordedAt[id]) = Len(storage[id].lastClassifications)
    /\ \A i, j \in 1..Len(recordedAt[id]) :
         i < j => recordedAt[id][i] > recordedAt[id][j]

\* Two calls for one session raced: the second loaded the same record as the
\* first, before the first saved; e saved first and w saved after it.
Raced(e, w) ==
  /\ e # w
  /\ updates[e].sessionId = updates[w].sessionId
  /\ updates[e].state = "saved" /\ updates[w].state = "saved"
  /\ updates[e].savedAs < updates[w].savedAs
  /\ updates[e].memory = updates[w].memory
  /\ updates[e].savesSeen < updates[e].savedAs /\ updates[w].savesSeen < updates[e].savedAs

\* No call has saved a record for the session of w since w did.
SavedLast(w) ==
  \A c \in Saved(updates) :
    updates[c].sessionId = updates[w].sessionId => updates[c].savedAs <= updates[w].savedAs

\* C16: concurrent updates of one session are not serialised.  When two calls
\* have loaded the same stored record before either saved, the later save
\* overwrites the earlier one: the stored record is what the later call made of
\* the record it had loaded, and no label of the earlier batch is in it.
LaterSaveOverwritesEarlier ==
  \A e, w \in 1..Len(updates) :
    (Raced(e, w) /\ SavedLast(w)) =>
      /\ storage[updates[w].sessionId] =
           UpdatedMemory(updates[w].memory, updates[w].classifications)
      /\ \A k \in 1..Len(recordedAt[updates[w].sessionId]) :
           \A i \in 1..Len(updates[e].timestamps) :
             recordedAt[updates[w].sessionId][k] # updates[e].timestamps[i]

\* Two calls raced on session s1; the earlier one recorded the cue of a
\* character the later one did not, and after the later save the stored record
\* has neither that name nor its count nor the labels of the earlier batch.
LostUpdateReached ==
  \E e, w \in 1..Len(updates) :
    /\ Raced(e, w) /\ SavedLast(w)
    /\ updates[e].sessionId = "s1"
    /\ updates[e].classifications # <<>>
    /\ updates[e].classifications[1].line = <<"allah", "colon">>
    /\ updates[w].classifications # <<>>
    /\ \A k \in 1..Len(storage["s1"].commonCharacters) :
         storage["s1"].commonCharacters[k] # <<"allah">>
    /\ MapGet(storage["s1"].characterDialogueMap, <<"allah">>) = 0
    /\ Len(storage["s1"].lastClassifications) = Len(updates[w].classifications)

\* C17: a batch run under one session id never reads or changes the record of
\* another session id, under any interleaving: the label a memory lookup gives
\* is the label it gives when the records of all other sessions are taken away,
\* the record a call of updateMemory loads is made of the record of its own
\* session alone, and a step changes the stored record of a session only when a
\* call for that session saves.
SessionsIndependent ==
  /\ [](lookup # NoLookup => lookup.label = lookup.alone)
  /\ [][/\ Len(updates') > Len(updates) =>
             LET call == updates'[Len(updates')]
             IN  call.memory =
                   MemoryOrDefault(OnlySession(storage, call.sessionId)[call.sessionId])
        /\ \A id \in SessionIds :
             storage'[id] # storage[id] =>
               \E c \in 1..Len(updates) :
                 /\ updates[c].sessionId = id
                 /\ updates[c].state = "loaded"
                 /\ updates'[c].state = "saved"]_vars

\* Updates of s1 and s2 overlapped (each loaded before the other saved); s1 has
\* recorded a character name that s2 has not, and a lookup of that bare name
\* under s2 was not given the label character, which it is given under s1.
OtherSessionIgnoredReached ==
  /\ \E a, b \in Saved(updates) :
       /\ updates[a].sessionId = "s1" /\ updates[b].sessionId = "s2"
       /\ updates[a].savesSeen < updates[b].savedAs
       /\ updates[b].savesSeen < updates[a].savedAs
  /\ \E k \in 1..Len(storage["s1"].commonCharacters) :
       storage["s1"].commonCharacters[k] = <<"ali">>
  /\ storage["s2"].present
  /\ \A k \in 1..Len(storage["s2"].commonCharacters) :
       storage["s2"].commonCharacters[k] # <<"ali">>
  /\ lookup.sessionId = "s2"
  /\ lookup.line = <<"ali">>
  /\ lookup.label # "character"
  /\ classifyWithContextAndMemory(<<"ali">>, buildContext(<<<<"ali">>>>, 1, <<>>),
                                  TRUE, storage, "s1") = "character"

BlankPasteIsNoOp ==
  (pc = "done" /\ pasteEvent.textData \in {"empty", "blank"}) =>
    /\ formattedHTML = <<>>
    /\ editor.content = pasteEvent.content

\* C20: when loading or using the session memory fails for a line, the
\* memory-augmented classifier returns the label the rule-based classifier
\* alone returns for that line and context.
FaultyMemoryGivesRuleLabel ==
  (lookup # NoLookup /\ storage[lookup.sessionId].faults # {}) =>
    lookup.label = lookup.ruleLabel

\* C21: a line recognised as a complete scene header whose number and
\* description cannot be split is emitted, and recorded in the label history,
\* as one plain scene-header-1 block.
UnsplitSceneHeaderIsSceneHeader1 ==
  \A k \in 1..Len(trace) :
    LET l == trace[k].line
        at == trace[k].at
    IN  (isCompleteSceneHeader(l) /\ ~splitSceneHeader(l).ok) =>
          /\ trace[k].labels = <<"scene-header-1">>
          /\ formattedHTML[at].label = "scene-header-1"
          /\ formattedHTML[at].parent = ""

\* C22: when a paste batch is complete, the store's record of the session has
\* been updated from the batch: it exists and its recent labels hold every
\* label finalized in the batch.
BatchRecordedInMemory ==
  (pc = "done" /\ memoryManager /\ classifiedTypes # <<>>) =>
    /\ storage[sessionId].present
    /\ \A k \in 1..Len(classifiedTypes) :
         \E j \in 1..Len(storage[sessionId].lastClassifications) :
           storage[sessionId].lastClassifications[j] = classifiedTypes[k]

\* The lines of the batch so far whose classification called
\* memoryManager.loadContext: every line that was not split inline, when there
\* is a manager.
LinesThatLoaded == {k \in 1..Len(trace) : memoryManager /\ ~trace[k].inline}

\* C23: within one batch the session memory is loaded at most once; the
\* classification of a later line performs no further load.
MemoryLoadedAtMostOncePerBatch == Cardinality(LinesThatLoaded) <= 1

\* The fresh record updateMemory starts from when the session has none.
EmptyDefaults ==
  [present |-> TRUE, commonCharacters |-> <<>>, lastClassifications |-> <<>>,
   characterDialogueMap |-> <<>>, faults |-> {}]

\* The call of updateMemory for session id that saves in this step.
SavingCalls(id) ==
  {c \in 1..Len(updates) :
     /\ updates[c].sessionId = id
     /\ updates[c].state = "loaded"
     /\ updates'[c].state = "saved"}

\* C24: a session's record comes into the store as the empty defaults brought
\* up to date by the update whose load missed; the store is changed by the
\* save of an update only (loads and classifications leave it as it is); and
\* a record once in the store is never taken out of it.
RecordLifecycle ==
  [][\A id \in SessionIds :
       /\ storage[id].present => storage'[id].present
       /\ storage'[id] # storage[id] => SavingCalls(id) # {}
       /\ (~storage[id].present /\ storage'[id].present) =>
            \E c \in SavingCalls(id) :
              storage'[id] = UpdatedMemory(EmptyDefaults, updates[c].classifications)]_vars

\* A record of s1 was created by an update whose load missed, was read by a
\* classification, and was then changed by a second update that loaded it.
RecordCreatedReadAndUpdatedReached ==
  /\ lookup.sessionId = "s1"
  /\ lookup.label = "character"
  /\ \E c, d \in 1..Len(updates) :
       /\ updates[c].sessionId = "s1" /\ updates[d].sessionId = "s1"
       /\ updates[c].state = "saved" /\ updates[d].state = "saved"
       /\ updates[c].memory = EmptyDefaults
       /\ updates[d].memory.lastClassifications # <<>>
       /\ updates[c].savedAs < updates[d].savedAs

RECURSIVE RecordsSeen(_, _)
\* The records handed to the first n saves that were for session id, in the
\* order of the saves.
RecordsSeen(id, n) ==
  IF n = 0 THEN <<>>
  ELSE LET saving == {c \in Saved(updates) :
                        updates[c].savedAs = n /\ updates[c].sessionId = id}
       IN  RecordsSeen(id, n - 1) \o
           (IF saving = {} THEN <<>> ELSE updates[CHOOSE c \in saving : TRUE].classifications)

\* The names of the character records among records, one entry per record.
CharacterNamesSeen(records) ==
  LET cues == SelectSeq(records, LAMBDA r : r.classification = "character"
                                            /\ RemoveColons(r.line) # <<>>)
  IN  [k \in 1..Len(cues) |-> RemoveColons(cues[k].line)]

\* The entries of a sequence that occur nowhere before their own place.
FirstOccurrences(names) ==
  LET firsts == {k \in 1..Len(names) : \A j \in 1..(k - 1) : names[j] # names[k]}
      Nth(n) == CHOOSE k \in firsts : Cardinality({j \in firsts : j < k}) = n - 1
  IN  [n \in 1..Cardinality(firsts) |-> names[Nth(n)]]

\* commonCharacters and characterDialogueMap of session id are what the
\* character records seen for it make them.
CharactersAsSeen(id) ==
  LET names == CharacterNamesSeen(RecordsSeen(id, Cardinality(Saved(updates))))
      record == storage[id]
  IN  /\ record.commonCharacters = FirstOccurrences(names)
      /\ \A k \in 1..Len(record.commonCharacters) :
           MapGet(record.characterDialogueMap, record.commonCharacters[k]) =
             Cardinality({j \in 1..Len(names) : names[j] = record.commonCharacters[k]})

\* No two saved calls for session id overlapped: of any two, one had saved
\* before the other loaded.
UpdatesInSequence(id) ==
  \A c, d \in Saved(updates) :
    (c # d /\ updates[c].sessionId = id /\ updates[d].sessionId = id) =>
      \/ updates[c].savedAs <= updates[d].savesSeen
      \/ updates[d].savedAs <= updates[c].savesSeen

\* C25 as stated: after any memory updates, commonCharacters has no duplicate
\* and lists the names in order of first recording, and characterDialogueMap
\* holds for each name the number of character records seen for it.
CharactersAndCountsAsSeen == \A id \in SessionIds : CharactersAsSeen(id)

\* C25 amended: the same, for the updates of a session that ran one after the
\* other, none loading before the one before it had saved.
CharactersAndCountsAsSeenInSequence ==
  \A id \in SessionIds : UpdatesInSequence(id) => CharactersAsSeen(id)

\* Two updates of s1 ran one after the other; two names are listed and the one
\* recorded first was seen again by the second update.
NameSeenAgainReached ==
  /\ UpdatesInSequence("s1")
  /\ Cardinality({c \in Saved(updates) : updates[c].sessionId = "s1"}) >= 2
  /\ Len(storage["s1"].commonCharacters) = 2
  /\ MapGet(storage["s1"].characterDialogueMap, storage["s1"].commonCharacters[1]) >= 2

\* C26: a batch pasted with an active selection terminates with every
\* non-empty line classified and emitted, whatever fails in the memory while a
\* line is classified: the loop always reaches its end, and at the end every
\* line has its labels in the history and its blocks, in order, in the editor.
BatchTerminatesWithEveryLineEmitted ==
  /\ [](pc = "loop" => <>(pc = "done"))
  /\ []((pc = "done" /\ pasteEvent.selection # "none") =>
          /\ Len(trace) = Len(lines)
          /\ \A k \in 1..Len(lines) :
               /\ trace[k].line = stripLeadingBullets(lines[k])
               /\ trace[k].at <= Len(formattedHTML)
               /\ formattedHTML[trace[k].at].label \in Labels
               /\ k < Len(lines) => trace[k].at < trace[k + 1].at
          /\ Len(editor.content) >= Len(formattedHTML)
          /\ SubSeq(editor.content, Len(editor.content) - Len(formattedHTML) + 1,
                    Len(editor.content)) = formattedHTML)

\* A batch of several lines is done although using the memory failed at its
\* first line, after the known-character override had been applied.
BatchDoneDespiteFailureReached ==
  /\ pc = "done"
  /\ storage["s1"].faults = {"lastClassifications"}
  /\ Len(lines) >= 2
  /\ lines[1] = <<"ali">>
  /\ trace[1].labels = <<"character">>
  /\ Len(trace) = Len(lines)

\* C27: importClassifiedText(text, mode) hands the text, unchanged, to the
\* paste pipeline exactly once; in replace mode every body is empty when the
\* pipeline is called and the selection lies inside a body; in insert mode
\* the bodies are as the import found them.
ImportRoutesTextOnce ==
  /\ Len(importer.handlePasteCalls) = Len(importer.requests)
  /\ \A k \in 1..Len(importer.handlePasteCalls) :
       LET call == importer.handlePasteCalls[k]
           request == importer.requests[k]
       IN  /\ call.request = k
           /\ call.text = request.text
           /\ request.mode = "replace" =>
                /\ \A b \in 1..Len(call.bodies) : call.bodies[b] = <<>>
                /\ call.selection.body \in 1..Len(call.bodies)
           /\ request.mode = "insert" => call.bodies = request.before.bodies

\* A text with CRLF line breaks was imported in replace mode into two bodies
\* with blocks while the selection was outside the editor, and the empty text
\* in insert mode after it.
ImportedBothModesReached ==
  /\ Len(importer.requests) = 2
  /\ importer.requests[1].text = "a\r\nb"
  /\ importer.requests[1].mode = "replace"
  /\ importer.requests[1].before.bodies = << <<"old">>, <<"old2">> >>
  /\ importer.requests[1].before.selection.at = "outside"
  /\ importer.requests[2].text = ""
  /\ importer.requests[2].mode = "insert"
  /\ importer.requests[2].before.bodies # << <<>>, <<>> >>

\* The invocation r of handleRunPendingConfirmations can still go on: it awaits
\* nothing, or the dialog holds the resolve of the promise it awaits.
RunCanGoOn(r) ==
  \/ pendingRuns[r].awaiting = 0
  \/ confirmationState.open /\ confirmationState.entry = pendingRuns[r].awaiting

\* C28: every batch the pipeline reported and that is no longer listed as
\* pending has been passed to the batch resolver, or is about to be (it waits in
\* an invocation that can still go on); no batch id is passed twice, and a
\* batch passed to the resolver is not listed any more.
EveryDrainedBatchResolvedOnce ==
  /\ \A i, j \in 1..Len(resolverCalls) : i # j => resolverCalls[i] # resolverCalls[j]
  /\ \A i \in 1..Len(resolverCalls) :
       \A k \in 1..Len(pendingConfirmations) :
         pendingConfirmations[k].pasteBatchId # resolverCalls[i]
  /\ \A n \in 1..Len(notifierCalls) :
       LET batchId == notifierCalls[n].pasteBatchId
       IN  \/ \E k \in 1..Len(pendingConfirmations) :
                pendingConfirmations[k].pasteBatchId = batchId
           \/ \E i \in 1..Len(resolverCalls) : resolverCalls[i] = batchId
           \/ \E r \in 1..Len(pendingRuns) :
                /\ RunCanGoOn(r)
                /\ \E k \in 2..Len(pendingRuns[r].batches) :
                     pendingRuns[r].batches[k] = batchId

\* extractFileText has been called for a file of the type.
Extracted(fileType) == extraction.fileType = fileType /\ extraction.result # NotExtracted

\* The attempt named x is made at all under env: the OCR attempts only when OCR
\* is configured.
DocAttemptMade(env, x) == x \in {"word-com-pdf-ocr", "ocr-direct"} => env.configured

\* The attempt named x, when made under env, gives the text that is returned.
DocAttemptSucceeds(env, x) ==
  CASE x = "antiword-wsl" -> env.wsl = "text"
    [] x = "antiword-custom" -> env.custom = "text"
    [] x = "word-com-text" -> env.wordCom = "text"
    [] x = "word-com-pdf-ocr" -> env.convert = "pdf" /\ env.convertedOcr # "throws"
    [] x = "ocr-direct" -> env.directOcr = "text"

\* C29: extraction from a .doc file tries its extractors in the fixed order of
\* the ladder, the two OCR attempts only when OCR is configured; it stops at the
\* first that succeeds; attempts is exactly the sequence of extractors tried, in
\* that order; and when every extractor fails it throws.
DocLadderInOrderUntilFirstSuccess ==
  (Extracted("doc") /\ extraction.env.tempFile) =>
    LET env == extraction.env
        result == extraction.result
        made == SelectSeq(DocLadder, LAMBDA x : DocAttemptMade(env, x))
        winners == {k \in 1..Len(made) : DocAttemptSucceeds(env, made[k])}
    IN  /\ result.threw <=> winners = {}
        /\ winners = {} => result.attempts = made
        /\ winners # {} =>
             LET first == CHOOSE k \in winners : \A j \in winners : k <= j
             IN  /\ result.attempts = SubSeq(made, 1, first)
                 /\ result.method =
                      (CASE made[first] \in {"antiword-wsl", "antiword-custom"} -> "antiword"
                         [] made[first] = "word-com-text" -> "word-com"
                         [] OTHER -> "ocr-mistral")
                 /\ result.usedOcr <=> made[first] \in {"word-com-pdf-ocr", "ocr-direct"}

\* Both antiword attempts and Word COM failed, the conversion left no PDF, and
\* the direct OCR, the fifth attempt, gave the text.
DocFifthAttemptReached ==
  /\ Extracted("doc")
  /\ ~extraction.result.threw
  /\ extraction.result.attempts = DocLadder
  /\ extraction.env.convert = "nopdf"
  /\ extraction.result.text = "directOcr"

\* C30: extraction from a PDF returns the locally parsed text, method
\* native-text, usedOcr false, when the local text is long enough; when it is
\* empty or weak OCR is called if and only if OCR is configured, and its text is
\* returned with method ocr-mistral and usedOcr true; when the local text is
\* weak and OCR is not configured or fails, an error is thrown and no text is
\* returned.
PdfLocalTextThenOcrOrError ==
  Extracted("pdf") =>
    LET env == extraction.env
        result == extraction.result
        strong == env.parse # "throws" /\ env.length >= MIN_TEXT_DENSITY
    IN  /\ strong =>
             /\ ~result.threw /\ result.text = "local" /\ ~result.blank
             /\ result.method = "native-text" /\ ~result.usedOcr
             /\ result.ocrCalls = 0
        /\ ~strong =>
             /\ result.ocrCalls = (IF env.configured THEN 1 ELSE 0)
             /\ (env.configured /\ env.ocr # "throws") =>
                  /\ ~result.threw /\ result.text = "ocr"
                  /\ result.method = "ocr-mistral" /\ result.usedOcr
             /\ (~env.configured \/ env.ocr = "throws") => result.threw

\* A PDF whose local text is one character short of the threshold went to OCR.
PdfWeakTextToOcrReached ==
  /\ Extracted("pdf")
  /\ extraction.env.parse = "text"
  /\ extraction.env.length = MIN_TEXT_DENSITY - 1
  /\ extraction.env.configured
  /\ extraction.result.method = "ocr-mistral"

\* C31: a line that starts with a bullet glyph and whose text after the strip
\* fails the inline character:dialogue split is labelled action, whatever else
\* the stripped text satisfies.
BulletLineWithoutSplitIsAction ==
  \A k \in 1..Len(trace) :
    (lines[k][1] = "bullet" /\ ~trace[k].inline) => trace[k].labels = <<"action">>

\* The line matches one of the two location patterns of isSceneHeader3: it
\* starts with a noun of KNOWN_PLACES, or it is a place noun with a dash
\* qualifier.
MatchesLocationPattern(l) ==
  LET normalized == normalizeLine(l)
      normalizedWithoutColon ==
        IF Len(normalized) > 0 /\ Last(normalized) = "colon" THEN Front(normalized)
        ELSE normalized
  IN  \/ Len(normalizedWithoutColon) > 0 /\ normalizedWithoutColon[1] \in KNOWN_PLACES
      \/ PlaceDashPattern(normalizedWithoutColon)

\* C32: a line is labelled scene-header-3 only if it matches the closed list of
\* location nouns or the place-with-dash-qualifier pattern; a short line
\* without sentence punctuation and action opener after a scene header that
\* matches neither is not labelled scene-header-3.
SceneHeader3OnlyForLocations ==
  \A k \in 1..Len(trace) :
    trace[k].labels = <<"scene-header-3">> => MatchesLocationPattern(trace[k].line)

\* C33: when the label before a line is dialogue, the classifier never labels
\* the line character, whatever the line and the session memory are.
NoCharacterRightAfterDialogue ==
  \A k \in 1..Len(trace) :
    (~trace[k].inline /\ LastOf(trace[k].previousTypes) = "dialogue") =>
      trace[k].labels # <<"character">>

\* C34: the heuristic of the short line followed by a line of more than 20
\* characters never labels a line character when the label before it is
\* character.
HeuristicNeverFollowsCharacter ==
  \A k \in 1..Len(trace) :
    (/\ ~trace[k].inline
     /\ trace[k].rule.step = 11
     /\ trace[k].labels = <<"character">>) =>
      LastOf(trace[k].previousTypes) # "character"

\* The text of the line without its colons contains a character name recorded
\* in the memory or is contained in one.
KnownCharacterName(memory, l) ==
  LET normalized == RemoveColons(normalizeLine(l))
  IN  \E c \in 1..Len(memory.commonCharacters) :
        \/ Includes(memory.commonCharacters[c], normalized)
        \/ Includes(normalized, memory.commonCharacters[c])

\* C35: a short line without sentence punctuation, of at most 3 words and
\* under 40 characters, whose text without colons contains or is contained in a
\* character name of the session memory, is labelled character by the classifier
\* with memory, whatever the rule-based label and the recent labels in memory.
KnownNameIsLabelledCharacter ==
  \A k \in 1..Len(trace) :
    LET ctx == buildContext(lines, k, trace[k].previousTypes)
        memory == loadContext(storage, sessionId)
    IN  (/\ ~trace[k].inline
         /\ memoryManager /\ memory.present /\ memory.faults = {}
         /\ ctx.stats.isShort /\ ~ctx.stats.hasPunctuation
         /\ ctx.stats.wordCount <= 3 /\ TextLength(trace[k].line) < 40
         /\ KnownCharacterName(memory, trace[k].line)) =>
          trace[k].labels = <<"character">>

\* C36: in the label history of a batch a parenthetical label stands only where
\* one of the three labels before it is character, dialogue or parenthetical,
\* and a fully parenthesised line outside a dialogue block is not labelled
\* parenthetical.
ParentheticalOnlyInDialogueBlock ==
  /\ \A p \in 1..Len(classifiedTypes) :
       classifiedTypes[p] = "parenthetical" =>
         \E j \in 1..(p - 1) :
           /\ j >= p - 3
           /\ classifiedTypes[j] \in {"character", "dialogue", "parenthetical"}
  /\ \A k \in 1..Len(trace) :
       (/\ isParenthetical(trace[k].line)
        /\ \A j \in 1..Len(trace[k].previousTypes) :
             j > Len(trace[k].previousTypes) - 3 =>
               trace[k].previousTypes[j] \notin {"character", "dialogue", "parenthetical"}) =>
         "parenthetical" \notin {trace[k].labels[j] : j \in 1..Len(trace[k].labels)}

\* One batch holds a parenthesised line before any dialogue block, labelled
\* something else, and the same line after a character, labelled parenthetical.
ParentheticalInsideAndOutsideReached ==
  /\ Len(trace) = 3
  /\ isParenthetical(trace[1].line) /\ trace[1].labels # <<"parenthetical">>
  /\ trace[3].line = trace[1].line /\ trace[3].labels = <<"parenthetical">>

\* C37: in the rendered output of a batch, whenever a scene-header-3 block
\* directly follows a scene-header-2 block, the one made by the split of a
\* complete scene header included, the scene-header-3 block has the paragraph
\* gap.
GapBetweenSceneHeader2And3 ==
  \A b \in 1..(Len(formattedHTML) - 1) :
    (/\ formattedHTML[b].label = "scene-header-2"
     /\ formattedHTML[b + 1].label = "scene-header-3") =>
      formattedHTML[b + 1].marginTop = "14pt"

\* C38: in the label history of a batch, with or without session memory, every
\* dialogue label comes directly after a character, parenthetical or dialogue
\* label, and so does every dialogue block among the rendered blocks: none is
\* first, none follows action, transition, basmala or a scene header.
DialogueOnlyAfterDialogueBlockLabel ==
  /\ \A p \in 1..Len(classifiedTypes) :
       classifiedTypes[p] = "dialogue" =>
         /\ p > 1
         /\ classifiedTypes[p - 1] \in {"character", "parenthetical", "dialogue"}
  /\ \A b \in 1..Len(formattedHTML) :
       formattedHTML[b].label = "dialogue" =>
         /\ b > 1
         /\ formattedHTML[b - 1].label \in {"character", "parenthetical", "dialogue"}

\* The memory has turned the label of a line into dialogue, and a dialogue
\* label of the batch stands after a character.
DialogueByMemoryReached ==
  /\ memoryManager
  /\ \E k \in 1..Len(trace) :
       ~trace[k].inline /\ trace[k].ruleLabel # "dialogue" /\ trace[k].labels = <<"dialogue">>
  /\ \E p \in 2..Len(classifiedTypes) :
       classifiedTypes[p] = "dialogue" /\ classifiedTypes[p - 1] = "character"

\* C39: after any sequence of committed commands, undos and redos the undo
\* stack holds at most MAX_COMMAND_HISTORY_ENTRIES entries, and a commit on a
\* full stack drops the oldest entry: what stays is the rest of the stack with
\* the new entry after it.
UndoStackBoundedOldestDropped ==
  /\ [](Len(commandHistory.undo) <= MAX_COMMAND_HISTORY_ENTRIES)
  /\ [][(/\ commandHistory'.last.op = "commit"
         /\ Len(commandHistory.undo) = MAX_COMMAND_HISTORY_ENTRIES) =>
          /\ Len(commandHistory'.undo) = MAX_COMMAND_HISTORY_ENTRIES
          /\ Front(commandHistory'.undo) = Tail(commandHistory.undo)
          /\ Last(commandHistory'.undo).before = commandHistory'.last.before
          /\ Last(commandHistory'.undo).after = commandHistory'.last.after]_vars

\* A commit was recorded on a full undo stack, after an undo and a redo.
CommitOnFullUndoStackReached ==
  /\ commandHistory.last.op = "commit"
  /\ commandHistory.last.undoBefore = MAX_COMMAND_HISTORY_ENTRIES
  /\ commandHistory.undos > 0

\* C40: a commit that records an entry empties the redo stack, so no entry that
\* was on the redo stack before the latest recording commit is on it afterwards
\* to be applied by redo; a command with the same content before and after
\* records nothing and leaves both stacks as they are, and so does a commit
\* while an undo or redo is applied.
CommitEmptiesRedoStack ==
  /\ [](\A k \in 1..Len(commandHistory.redo) : ~commandHistory.redo[k].stale)
  /\ [](commandHistory.last.op = "commit" => commandHistory.redo = <<>>)
  /\ [][commandHistory'.last.op = "redo" => ~Last(commandHistory.redo).stale]_vars
  /\ [][(/\ commandHistory'.last.op \in {"commit", "commit-none"}
         /\ (commandHistory'.last.before = commandHistory'.last.after
             \/ commandHistory.applying)) =>
          /\ commandHistory'.last.op = "commit-none"
          /\ commandHistory'.undo = commandHistory.undo
          /\ commandHistory'.redo = commandHistory.redo]_vars

\* A commit has emptied a redo stack that held an undone entry.
CommitAfterUndoReached ==
  /\ commandHistory.last.op = "commit"
  /\ commandHistory.last.redoBefore > 0
  /\ commandHistory.redo = <<>>

====
